---- MODULE Spec2Model ----
(***************************************************************************)
(* Model of RobotConnectionService (src/src/robots/robot-connection.       *)
(* service.ts, second definition of the class, lines 240-749): the         *)
(* registry of robot connections, the ROSLIB.Ros transports it opens, the  *)
(* status callbacks and the promise each connectToRobot call returns.      *)
(*                                                                         *)
(* JavaScript runs every handler to completion, so each public method and  *)
(* each transport event handler is one atomic action.  The transport       *)
(* (ROSLIB.Ros over a WebSocket) is the environment: it emits              *)
(* 'connection', 'error' and 'close' in the orders a WebSocket can.        *)
(***************************************************************************)
EXTENDS Integers, Sequences, FiniteSets, TLC

\* ---------------------------------------------------------------- bounds
MaxRos == 2                      \* ROSLIB.Ros objects created in one run
MaxSubs == 2                     \* subscribed ROSLIB.Topic objects per Ros
MaxSessions == 1                 \* Ros objects created in a run that exercises topics
MaxCalls == 2                    \* service calls sent in one run
MaxClients == 1                  \* client sockets accepted by the relay in one run
MaxFrames == 2                   \* frames that reach the relay in one run
MaxShared == 2                   \* client sockets attached to one Session's transport
MaxRelaySessions == 2            \* Ros objects created in a run with one relay client
MaxRequests == 2                 \* robot:connect requests handled in one run
MaxWrites == 1                   \* updateStatus calls pending when robot:disconnect is handled

\* ---------------------------------------------------------------- domains
RobotIds    == {"r1", "r2"}
Ips         == {"10.0.0.5"}
Ports       == {9090}
Callbacks   == {"cb1"}
NoCallback  == "undefined"
TopicNames  == {"/cmd_vel", "/scan", "/TargetAngle"}
\* The keys a topic map can hold: the names above and the keys of the
\* subscriptions handleConnectRobot makes ('voltage' holds Topic '/voltage').
TopicKeys   == TopicNames \cup {"voltage", "/ArmAngleUpdate", "/map"}
\* Inbound topic messages: an optional field is << >> when absent. A
\* std_msgs/Float32, an ArmJoint with joints, an ArmJoint whose joints are
\* empty or missing, and a message with neither field.
Messages ==
    {[data |-> <<118>>, joints |-> << >>],
     [data |-> << >>, joints |-> <<90, 45>>],
     [data |-> << >>, joints |-> << >>]}
StatusCallbacks == {"cb1", "cb2"} \* callbacks handed to onConnectionStatusChange
SubCallbacks == {"f1", "f2"}     \* callbacks handed to the subscribe methods
ServiceNames == {"/mode/req", "/CurrentAngle"}
\* What the robot answers to a service call: a well-formed result, a result
\* whose payload the callback cannot use, or a failure (result: false).
ResponseKinds == {"ok", "malformed", "failed"}
\* Raw frames: a text frame and a binary frame. The handlers are given the
\* payload (data) and pass it to send(); the logs below hold payloads.
Frames == {[binary |-> FALSE, data |-> "json"], [binary |-> TRUE, data |-> "bytes"]}
\* The listener interface of the robot socket: on/off or
\* addEventListener/removeEventListener.
SocketApis == {"on", "addEventListener"}
\* Joystick axes and speeds, in tenths: 5 is 0.5, -2 is -0.2.
Axes        == {-2, 0, 5}
Speeds      == {2, 5}
MoveDirections == {"forward", "backward", "left", "right"}
RotateDirections == {"left", "right"}
\* robot:armControl payloads: six joints, one servo, and one with neither.
\* An optional field is << >> when absent and << v >> when present.
ArmPayloads ==
    {[joints |-> <<90, 90, 90, 90, 90, 90>>, id |-> << >>, angle |-> << >>,
      runTime |-> 1000],
     [joints |-> << >>, id |-> <<1>>, angle |-> <<45>>, runTime |-> 1000],
     [joints |-> << >>, id |-> <<1>>, angle |-> << >>, runTime |-> 1000]}
RosIds      == 1..MaxRos
NoRos       == 0                 \* connections.get(robotId) === undefined

VARIABLES
    ros,                 \* the ROSLIB.Ros objects, by creation order
    connection,          \* the RobotConnection object built for a Ros
    connections,         \* Map<robotId, RobotConnection> (by object identity)
    connectionCallbacks, \* Map<robotId, callback>
    connectPromise,      \* state of the promise a connectToRobot call returned
    trace,               \* per Ros: what its handlers did, in program order
    lastConnect,         \* what the latest connectToRobot call returned
    lastRequest,         \* latest connect/disconnect request per robot
    removed,             \* robot's entry was deleted since its last connect request
    subscriptions,       \* per Ros: its topic listeners, in registration order
    lastSeen,            \* per RobotConnection: what stamped connection.lastSeen last
    lastCall,            \* the latest call or inbound frame: outcome, frames sent,
                         \* callbacks invoked
    calls,               \* service calls sent: transport, promise, response delivered
    clients,             \* relay: the client sockets accepted, in order
    written,             \* relay: per Ros, the payloads written to its socket
    emitted,             \* relay: per Ros, the payloads its socket received from the robot
    lastEmit,            \* gateway: the latest event a handler emitted
    statusPromise,       \* gateway: per Ros, how the promises its status callbacks
                         \* returned were settled, in invocation order
    requests,            \* gateway: the robot:connect requests being handled or
                         \* handled, in arrival order
    writes,              \* persistence: the updateStatus calls issued and not yet
                         \* completed, in issue order
    persisted            \* persistence: the status field of each robot's record

topicVars == <<subscriptions, lastSeen, lastCall>>

callVars == <<calls>>

relayVars == <<clients, written, emitted>>

gatewayVars == <<lastEmit, statusPromise>>

requestVars == <<requests, writes, persisted>>

vars == <<ros, connection, connections, connectionCallbacks, connectPromise,
          trace, lastConnect, lastRequest, removed, topicVars, callVars, relayVars,
          gatewayVars, requestVars>>

\* ---------------------------------------------------------------- helpers
\* rosUrl = `ws://${ip}:${port}`
RosUrl(ip, port) == <<"ws", ip, port>>

UnusedRos == [robotId |-> "", url |-> <<>>, readyState |-> "unused",
              isConnected |-> FALSE, errored |-> FALSE]

\* a ROSLIB.Topic held in connection.topics; NoTopic: topics.get(name) === undefined
NoTopic == [name |-> "", messageType |-> "", subscribed |-> FALSE, advertised |-> FALSE,
            cb |-> NoCallback, via |-> ""]

\* new ROSLIB.Topic({ ros, name, messageType })
NewTopic(name, messageType) ==
    [name |-> name, messageType |-> messageType, subscribed |-> FALSE,
     advertised |-> FALSE, cb |-> NoCallback, via |-> ""]

\* a frame handed to the Ros for sending
Frame(op, name) == [op |-> op, name |-> name, msg |-> << >>]

\* { x, y, z }: a vector of a geometry_msgs/Twist, in tenths
Vec3(x, y, z) == [x |-> x, y |-> y, z |-> z]

Call(op, r, t, name, result, sent) ==
    [op |-> op, robotId |-> r, ros |-> t, name |-> name, result |-> result,
     sent |-> sent, cbs |-> << >>, id |-> 0]

\* const connection = this.connections.get(robotId);
\* if (!connection || !connection.isConnected) ...
NotConnected(r) == connections[r] = NoRos \/ ~connection[connections[r]].isConnected

\* The listeners of Ros t for topic name.
Listeners(t, name) == SelectSeq(subscriptions[t], LAMBDA l : l.name = name)

\* Topic.unsubscribe(): the listener of that Topic object leaves the Ros.
\* The Topic held in the topic map is the one subscribed last under its name.
RECURSIVE RemoveLast(_, _)
RemoveLast(seq, l) ==
    IF seq = << >> THEN << >>
    ELSE IF seq[Len(seq)] = l THEN SubSeq(seq, 1, Len(seq) - 1)
    ELSE RemoveLast(SubSeq(seq, 1, Len(seq) - 1), l) \o << seq[Len(seq)] >>

\* topics: new Map()
EmptyTopics == [n \in TopicKeys |-> NoTopic]

NoConnection == [ros |-> NoRos, topics |-> EmptyTopics, isConnected |-> FALSE,
                 batteryVoltage |-> << >>]

UsedRos == {t \in RosIds : ros[t].readyState # "unused"}

\* A promise settles once: resolve()/reject() on a settled promise is a no-op.
Settle(p, outcome) == IF p = "pending" THEN outcome ELSE p

Ev(ev, status, cb) == [ev |-> ev, status |-> status, cb |-> cb]

\* const callback = this.connectionCallbacks.get(robotId);
\* if (callback) callback(status);
\* The entry records the callback that was looked up; NoCallback means the
\* lookup found none and nothing was invoked.
Notify(r, status) == << Ev("notify", status, connectionCallbacks[r]) >>

\* this.server.emit(event, { robotId, ... }) in a command handler; content is
\* what the handler puts in the event's error or message text
Emit(handler, event, r, content) ==
    [handler |-> handler, event |-> event, robotId |-> r, content |-> content]

\* No transport of robot r is being opened or open.
Quiet(r) == \A t \in RosIds :
    ros[t].robotId = r => ros[t].readyState \notin {"connecting", "open"}

\* Positions in the trace of Ros t where a callback was invoked with status.
NotifyIdx(t, status) ==
    {i \in DOMAIN trace[t] : /\ trace[t][i].ev = "notify"
                             /\ trace[t][i].status = status
                             /\ trace[t][i].cb # NoCallback}

\* Positions in the trace of Ros t of the handler step ev.
EvIdx(t, ev) == {i \in DOMAIN trace[t] : trace[t][i].ev = ev}

\* this.connections.has(robotId)
Has(r) == connections[r] # NoRos

\* isRobotConnected: this.connections.get(robotId)?.isConnected || false
IsRobotConnected(r) == Has(r) /\ connection[connections[r]].isConnected

\* ---------------------------------------------------------------- Init
Init ==
    /\ ros = [t \in RosIds |-> UnusedRos]
    /\ connection = [t \in RosIds |-> NoConnection]
    /\ connections = [r \in RobotIds |-> NoRos]
    /\ connectionCallbacks = [r \in RobotIds |-> NoCallback]
    /\ connectPromise = [t \in RosIds |-> "none"]
    /\ trace = [t \in RosIds |-> << >>]
    /\ lastConnect = [robotId |-> "", result |-> "none", ros |-> NoRos]
    /\ lastRequest = [r \in RobotIds |-> "none"]
    /\ removed = [r \in RobotIds |-> FALSE]
    /\ subscriptions = [t \in RosIds |-> << >>]
    /\ lastSeen = [t \in RosIds |-> "never"]
    /\ lastCall = Call("none", "", NoRos, "", "none", << >>)
    /\ calls = << >>
    /\ clients = << >>
    /\ written = [t \in RosIds |-> << >>]
    /\ emitted = [t \in RosIds |-> << >>]
    /\ lastEmit = Emit("", "", "", [text |-> ""])
    /\ statusPromise = [t \in RosIds |-> << >>]
    /\ requests = << >>
    /\ writes = << >>
    /\ persisted = [r \in RobotIds |-> "offline"]

\* ---------------------------------------------------------------- API
\* connectToRobot without the `connections.has(robotId)` early return.
ConnectToRobot_NoEarlyReturn(r, ip, port) ==
    /\ lastRequest' = [lastRequest EXCEPT ![r] = "connect"]
    /\ removed' = [removed EXCEPT ![r] = FALSE]
    /\ Cardinality(UsedRos) < MaxRos
    /\ LET t == Cardinality(UsedRos) + 1 IN
       /\ ros' = [ros EXCEPT ![t] =
                     [robotId |-> r, url |-> RosUrl(ip, port),
                      readyState |-> "connecting",
                      isConnected |-> FALSE, errored |-> FALSE]]
       /\ connectPromise' = [connectPromise EXCEPT ![t] = "pending"]
       /\ lastConnect' = [robotId |-> r, result |-> "pending", ros |-> t]
       /\ trace' = [trace EXCEPT ![t] =
             << Ev("new", IF lastRequest[r] = "disconnect" /\ removed[r] /\ Quiet(r)
                          THEN "afterDisconnect" ELSE "", NoCallback) >>]
    /\ UNCHANGED <<connection, connections, topicVars, callVars, relayVars,
                   gatewayVars>>

\* connectToRobot(robotId, ip, port): the synchronous part of the call.
\* connectionCallbacks is left to the caller (HandleConnectRobot).
ConnectToRobot(r, ip, port) ==
    /\ lastRequest' = [lastRequest EXCEPT ![r] = "connect"]
    /\ removed' = [removed EXCEPT ![r] = FALSE]
    /\ IF Has(r)
       THEN \* already connected: return (the async function's promise fulfils)
            /\ lastConnect' = [robotId |-> r, result |-> "fulfilled", ros |-> NoRos]
            /\ UNCHANGED <<ros, connection, connections, connectPromise, trace>>
            /\ UNCHANGED <<topicVars, callVars, relayVars, gatewayVars>>
       ELSE \* new ROSLIB.Ros({url}); handlers registered; promise returned
            /\ Cardinality(UsedRos) < MaxRos
            /\ LET t == Cardinality(UsedRos) + 1 IN
               /\ ros' = [ros EXCEPT ![t] =
                             [robotId |-> r, url |-> RosUrl(ip, port),
                              readyState |-> "connecting",
                              isConnected |-> FALSE, errored |-> FALSE]]
               /\ connectPromise' = [connectPromise EXCEPT ![t] = "pending"]
               /\ lastConnect' = [robotId |-> r, result |-> "pending", ros |-> t]
               /\ trace' = [trace EXCEPT ![t] =
                     << Ev("new", IF lastRequest[r] = "disconnect" /\ removed[r] /\ Quiet(r)
                                  THEN "afterDisconnect" ELSE "", NoCallback) >>]
            /\ UNCHANGED <<connection, connections, topicVars, callVars, relayVars,
                           gatewayVars>>

\* onConnectionStatusChange keeping the callback registered first
OnConnectionStatusChange_KeepFirst(r, cb) ==
    /\ connectionCallbacks' = [connectionCallbacks EXCEPT ![r] =
                                  IF @ = NoCallback THEN cb ELSE @]
    /\ lastCall' = Call("onConnectionStatusChange", r, NoRos, cb, "registered", << >>)
    /\ UNCHANGED <<ros, connection, connections, connectPromise, trace, lastConnect,
                   lastRequest, removed, subscriptions, lastSeen, callVars, relayVars,
                   gatewayVars>>

\* onConnectionStatusChange(robotId, callback)
OnConnectionStatusChange(r, cb) ==
    /\ connectionCallbacks' = [connectionCallbacks EXCEPT ![r] = cb]
    /\ lastCall' = Call("onConnectionStatusChange", r, NoRos, cb, "registered", << >>)
    /\ UNCHANGED <<ros, connection, connections, connectPromise, trace, lastConnect,
                   lastRequest, removed, subscriptions, lastSeen, callVars, relayVars,
                   gatewayVars>>

\* handleConnectRobot, from the robot record being found to the await of the
\* connect promise: the status callback is registered and connectToRobot is
\* called with the record's address, with nothing awaited in between.
HandleConnectRobot(r, cb, ip, port) ==
    /\ connectionCallbacks' = [connectionCallbacks EXCEPT ![r] = cb]
    /\ ConnectToRobot(r, ip, port)

\* disconnectFromRobot closing the robot's transport and clearing the whole map
DisconnectFromRobot_ClearsRegistry(r) ==
    /\ lastRequest' = [lastRequest EXCEPT ![r] = "disconnect"]
    /\ IF Has(r)
       THEN LET t == connection[connections[r]].ros IN
            /\ ros' = [ros EXCEPT ![t].readyState =
                          IF @ = "open" THEN "closing" ELSE @]
            /\ connections' = [q \in RobotIds |-> NoRos]
            /\ removed' = [removed EXCEPT ![r] = TRUE]
       ELSE UNCHANGED <<ros, connections, removed>>
    /\ UNCHANGED <<connection, connectionCallbacks, connectPromise, trace,
                   lastConnect, topicVars, callVars, relayVars, gatewayVars>>

\* disconnectFromRobot(robotId)
DisconnectFromRobot(r) ==
    /\ lastRequest' = [lastRequest EXCEPT ![r] = "disconnect"]
    /\ IF Has(r)
       THEN LET t == connection[connections[r]].ros IN
            \* connection.ros.close(): an open socket starts its closing handshake
            /\ ros' = [ros EXCEPT ![t].readyState =
                          IF @ = "open" THEN "closing" ELSE @]
            /\ connections' = [connections EXCEPT ![r] = NoRos]
            /\ removed' = [removed EXCEPT ![r] = TRUE]
       ELSE UNCHANGED <<ros, connections, removed>>
    /\ UNCHANGED <<connection, connectionCallbacks, connectPromise, trace,
                   lastConnect, topicVars, callVars, relayVars, gatewayVars>>

\* ---------------------------------------------------------------- transport events
\* the 'connection' handler invoking the callback before connections.set
RosConnection_NotifyFirst(t) ==
    /\ ros[t].readyState = "connecting"
    /\ LET r == ros[t].robotId IN
       /\ ros' = [ros EXCEPT ![t].readyState = "open", ![t].isConnected = TRUE]
       /\ connection' = [connection EXCEPT ![t] =
                            [ros |-> t, topics |-> EmptyTopics, isConnected |-> TRUE,
                             batteryVoltage |-> << >>]]
       /\ connections' = [connections EXCEPT ![r] = t]
       /\ trace' = [trace EXCEPT ![t] =
                       @ \o Notify(r, "connected")
                         \o << Ev("set", "", NoCallback) >>
                         \o << Ev("resolve", "", NoCallback) >>]
       /\ connectPromise' = [connectPromise EXCEPT ![t] = Settle(@, "fulfilled")]
       /\ lastSeen' = [lastSeen EXCEPT ![t] = "connection"]
    /\ UNCHANGED <<connectionCallbacks, lastConnect, lastRequest, removed,
                   subscriptions, lastCall, callVars, relayVars, gatewayVars>>

\* ros.on('connection', ...)
RosConnection(t) ==
    /\ ros[t].readyState = "connecting"
    /\ LET r == ros[t].robotId IN
       /\ ros' = [ros EXCEPT ![t].readyState = "open", ![t].isConnected = TRUE]
       /\ connection' = [connection EXCEPT ![t] =
                            [ros |-> t, topics |-> EmptyTopics, isConnected |-> TRUE,
                             batteryVoltage |-> << >>]]
       /\ connections' = [connections EXCEPT ![r] = t]
       /\ trace' = [trace EXCEPT ![t] =
                       @ \o << Ev("set", "", NoCallback) >>
                         \o Notify(r, "connected")
                         \o << Ev("resolve", "", NoCallback) >>]
       /\ connectPromise' = [connectPromise EXCEPT ![t] = Settle(@, "fulfilled")]
       /\ lastSeen' = [lastSeen EXCEPT ![t] = "connection"]
    /\ UNCHANGED <<connectionCallbacks, lastConnect, lastRequest, removed,
                   subscriptions, lastCall, callVars, relayVars, gatewayVars>>

\* the 'error' handler notifying only inside the `!connections.has` branch
RosError_NotifyOnlyWhenRejecting(t) ==
    /\ ros[t].readyState \in {"connecting", "open", "closing"}
    /\ ~ros[t].errored
    /\ LET r == ros[t].robotId IN
       /\ ros' = [ros EXCEPT ![t].readyState = "closing", ![t].errored = TRUE]
       /\ IF ~Has(r)
          THEN /\ trace' = [trace EXCEPT ![t] =
                               @ \o Notify(r, "error")
                                 \o << Ev("reject", "", NoCallback) >>]
               /\ connectPromise' = [connectPromise EXCEPT ![t] = Settle(@, "rejected")]
          ELSE UNCHANGED <<trace, connectPromise>>
    /\ UNCHANGED <<connection, connections, connectionCallbacks, lastConnect,
                   lastRequest, removed, topicVars, callVars, relayVars, gatewayVars>>

\* ros.on('error', ...)
RosError(t) ==
    /\ ros[t].readyState \in {"connecting", "open", "closing"}
    /\ ~ros[t].errored
    /\ LET r == ros[t].robotId IN
       /\ ros' = [ros EXCEPT ![t].readyState = "closing", ![t].errored = TRUE]
       /\ IF ~Has(r)
          THEN /\ trace' = [trace EXCEPT ![t] =
                               @ \o Notify(r, "error")
                                 \o << Ev("reject", "", NoCallback) >>]
               /\ connectPromise' = [connectPromise EXCEPT ![t] = Settle(@, "rejected")]
          ELSE /\ trace' = [trace EXCEPT ![t] = @ \o Notify(r, "error")]
               /\ UNCHANGED connectPromise
    /\ UNCHANGED <<connection, connections, connectionCallbacks, lastConnect,
                   lastRequest, removed, topicVars, callVars, relayVars, gatewayVars>>

\* the 'close' handler marking the entry disconnected without deleting it
RosClose_MarkOnly(t) ==
    /\ ros[t].readyState \in {"open", "closing"}
    /\ LET r == ros[t].robotId IN
       /\ ros' = [ros EXCEPT ![t].readyState = "closed", ![t].isConnected = FALSE]
       /\ IF Has(r)
          THEN /\ connection' = [connection EXCEPT ![connections[r]].isConnected = FALSE]
               /\ trace' = [trace EXCEPT ![t] =
                               @ \o << Ev("markDisconnected", "", NoCallback) >>
                                 \o Notify(r, "disconnected")]
          ELSE /\ UNCHANGED connection
               /\ trace' = [trace EXCEPT ![t] = @ \o Notify(r, "disconnected")]
    /\ UNCHANGED <<connections, removed, connectionCallbacks, connectPromise, lastConnect,
                   lastRequest, topicVars, callVars, relayVars, gatewayVars>>

\* ros.on('close', ...)
RosClose(t) ==
    /\ ros[t].readyState \in {"open", "closing"}
    /\ LET r == ros[t].robotId IN
       /\ ros' = [ros EXCEPT ![t].readyState = "closed", ![t].isConnected = FALSE]
       /\ IF Has(r)
          THEN /\ connection' = [connection EXCEPT ![connections[r]].isConnected = FALSE]
               /\ removed' = [removed EXCEPT ![r] = TRUE]
               /\ trace' = [trace EXCEPT ![t] =
                               @ \o << Ev("markDisconnected", "", NoCallback) >>
                                 \o Notify(r, "disconnected")
                                 \o << Ev("delete", "", NoCallback) >>]
          ELSE /\ UNCHANGED <<connection, removed>>
               /\ trace' = [trace EXCEPT ![t] =
                               @ \o Notify(r, "disconnected")
                                 \o << Ev("delete", "", NoCallback) >>]
       /\ connections' = [connections EXCEPT ![r] = NoRos]
    /\ UNCHANGED <<connectionCallbacks, connectPromise, lastConnect, lastRequest,
                   topicVars, callVars, relayVars, gatewayVars>>

\* ---------------------------------------------------------------- topics
\* Topic.publish(message): the Topic advertises itself before its first
\* message, then sends the message.
PublishFrames(topic, message) ==
    (IF topic.advertised THEN << >> ELSE << Frame("advertise", topic.name) >>)
    \o << [Frame("publish", topic.name) EXCEPT !.msg = message] >>

\* publishCmdVel creating a new ROSLIB.Topic on every call
PublishCmdVel_AlwaysNew(r, linear, angular) ==
    /\ IF NotConnected(r)
       THEN /\ lastCall' = Call("publishCmdVel", r, NoRos, "/cmd_vel", "notConnected", << >>)
            /\ UNCHANGED <<connection, lastSeen>>
       ELSE LET c == connections[r]
                cmdVelTopic == NewTopic("/cmd_vel", "geometry_msgs/Twist")
                twist == [linear |-> linear, angular |-> angular]
            IN /\ connection' = [connection EXCEPT ![c].topics["/cmd_vel"] =
                                    [cmdVelTopic EXCEPT !.advertised = TRUE]]
               /\ lastSeen' = [lastSeen EXCEPT ![c] = "publish"]
               /\ lastCall' = Call("publishCmdVel", r, connection[c].ros, "/cmd_vel",
                                   "published", PublishFrames(cmdVelTopic, twist))
    /\ UNCHANGED <<ros, connections, connectionCallbacks, connectPromise, trace,
                   lastConnect, lastRequest, removed, subscriptions,
                   callVars, relayVars>>

\* publishCmdVel(robotId, linear, angular): the '/cmd_vel' handle is created
\* on first use and kept; Topic.publish advertises the topic before sending.
PublishCmdVel(r, linear, angular) ==
    /\ IF NotConnected(r)
       THEN /\ lastCall' = Call("publishCmdVel", r, NoRos, "/cmd_vel", "notConnected", << >>)
            /\ UNCHANGED <<connection, lastSeen>>
       ELSE LET c == connections[r]
                old == connection[c].topics["/cmd_vel"]
                cmdVelTopic == IF old = NoTopic
                               THEN NewTopic("/cmd_vel", "geometry_msgs/Twist")
                               ELSE old
                twist == [linear |-> linear, angular |-> angular]
            IN /\ connection' = [connection EXCEPT ![c].topics["/cmd_vel"] =
                                    [cmdVelTopic EXCEPT !.advertised = TRUE]]
               /\ lastSeen' = [lastSeen EXCEPT ![c] = "publish"]
               /\ lastCall' = Call("publishCmdVel", r, connection[c].ros, "/cmd_vel",
                                   "published", PublishFrames(cmdVelTopic, twist))
    /\ UNCHANGED <<ros, connections, connectionCallbacks, connectPromise, trace,
                   lastConnect, lastRequest, removed, subscriptions,
                   callVars, relayVars>>

\* publishArmControl(robotId, armCommand): the '/TargetAngle' handle is created
\* on first use and kept.
PublishArmControl(r, armCommand) ==
    /\ IF NotConnected(r)
       THEN /\ lastCall' = Call("publishArmControl", r, NoRos, "/TargetAngle",
                                "notConnected", << >>)
            /\ UNCHANGED <<connection, lastSeen>>
       ELSE LET c == connections[r]
                old == connection[c].topics["/TargetAngle"]
                armTopic == IF old = NoTopic
                            THEN NewTopic("/TargetAngle", "yahboomcar_msgs/ArmJoint")
                            ELSE old
                message == [id |-> armCommand.id, run_time |-> armCommand.runTime,
                            angle |-> armCommand.angle, joints |-> armCommand.joints]
            IN /\ connection' = [connection EXCEPT ![c].topics["/TargetAngle"] =
                                    [armTopic EXCEPT !.advertised = TRUE]]
               /\ lastSeen' = [lastSeen EXCEPT ![c] = "publish"]
               /\ lastCall' = Call("publishArmControl", r, connection[c].ros,
                                   "/TargetAngle", "published",
                                   PublishFrames(armTopic, message))
    /\ UNCHANGED <<ros, connections, connectionCallbacks, connectPromise, trace,
                   lastConnect, lastRequest, removed, subscriptions,
                   callVars, relayVars>>

\* subscribeToTopic(robotId, topicName, messageType, callback): always a new
\* ROSLIB.Topic, subscribed and stored under topicName.
SubscribeToTopic(r, topicName, messageType, cb) ==
    /\ IF NotConnected(r)
       THEN /\ lastCall' = Call("subscribeToTopic", r, NoRos, topicName, "notConnected", << >>)
            /\ UNCHANGED <<connection, subscriptions>>
       ELSE LET c == connections[r]
                t == connection[c].ros
            IN /\ Len(subscriptions[t]) < MaxSubs
               /\ subscriptions' = [subscriptions EXCEPT ![t] =
                                       Append(@, [name |-> topicName, cb |-> cb,
                                                  via |-> "subscribeToTopic"])]
               /\ connection' = [connection EXCEPT ![c].topics[topicName] =
                                    [NewTopic(topicName, messageType) EXCEPT
                                        !.subscribed = TRUE, !.cb = cb,
                                        !.via = "subscribeToTopic"]]
               /\ lastCall' = Call("subscribeToTopic", r, t, topicName, "subscribed",
                                   << Frame("subscribe", topicName) >>)
    /\ UNCHANGED <<ros, connections, connectionCallbacks, connectPromise, trace,
                   lastConnect, lastRequest, removed, lastSeen,
                   callVars, relayVars, gatewayVars>>

\* subscribeToLaserScan(robotId, callback)
SubscribeToLaserScan(r, cb) ==
    /\ IF NotConnected(r)
       THEN /\ lastCall' = Call("subscribeToLaserScan", r, NoRos, "/scan", "notConnected", << >>)
            /\ UNCHANGED <<connection, subscriptions>>
       ELSE LET c == connections[r]
                t == connection[c].ros
            IN IF connection[c].topics["/scan"] # NoTopic
               THEN \* already subscribed
                    /\ lastCall' = Call("subscribeToLaserScan", r, t, "/scan",
                                        "alreadySubscribed", << >>)
                    /\ UNCHANGED <<connection, subscriptions>>
               ELSE /\ Len(subscriptions[t]) < MaxSubs
                    /\ subscriptions' = [subscriptions EXCEPT ![t] =
                                            Append(@, [name |-> "/scan", cb |-> cb,
                                                       via |-> "subscribeToLaserScan"])]
                    /\ connection' = [connection EXCEPT ![c].topics["/scan"] =
                                         [NewTopic("/scan", "sensor_msgs/LaserScan") EXCEPT
                                             !.subscribed = TRUE, !.cb = cb,
                                             !.via = "subscribeToLaserScan"]]
                    /\ lastCall' = Call("subscribeToLaserScan", r, t, "/scan", "subscribed",
                                        << Frame("subscribe", "/scan") >>)
    /\ UNCHANGED <<ros, connections, connectionCallbacks, connectPromise, trace,
                   lastConnect, lastRequest, removed, lastSeen,
                   callVars, relayVars, gatewayVars>>

\* The body the voltage, arm-angle and map subscriptions share, after the
\* connected test: if (connection.topics.has(key)) return; otherwise a new
\* ROSLIB.Topic is subscribed with the method's wrapper and stored under key.
\* st is the connection's topic map with the listeners of its Ros.
SubscribeOnce(st, via, key, name, messageType, cb) ==
    IF st.topics[key] # NoTopic THEN st
    ELSE [topics |-> [st.topics EXCEPT ![key] =
                         [NewTopic(name, messageType) EXCEPT
                             !.subscribed = TRUE, !.cb = cb, !.via = via]],
          listeners |-> Append(st.listeners, [name |-> name, cb |-> cb, via |-> via])]

\* One of those subscribe methods called for robot r.
SubscribeMethod(r, via, key, name, messageType, cb) ==
    IF NotConnected(r)
    THEN /\ lastCall' = Call(via, r, NoRos, name, "notConnected", << >>)
         /\ UNCHANGED <<connection, subscriptions>>
    ELSE LET c == connections[r]
             t == connection[c].ros
             st == SubscribeOnce([topics |-> connection[c].topics,
                                  listeners |-> subscriptions[t]],
                                 via, key, name, messageType, cb)
         IN /\ connection' = [connection EXCEPT ![c].topics = st.topics]
            /\ subscriptions' = [subscriptions EXCEPT ![t] = st.listeners]
            /\ lastCall' =
                  IF connection[c].topics[key] # NoTopic
                  THEN Call(via, r, t, name, "alreadySubscribed", << >>)
                  ELSE Call(via, r, t, name, "subscribed",
                            << Frame("subscribe", name) >>)

\* subscribeToArmAngleUpdate(robotId, callback)
SubscribeToArmAngleUpdate(r, cb) ==
    /\ SubscribeMethod(r, "subscribeToArmAngleUpdate", "/ArmAngleUpdate", "/ArmAngleUpdate",
                       "yahboomcar_msgs/ArmJoint", cb)
    /\ UNCHANGED <<ros, connections, connectionCallbacks, connectPromise, trace,
                   lastConnect, lastRequest, removed, lastSeen,
                   callVars, relayVars, gatewayVars>>

\* subscribeToBatteryVoltage(robotId, callback): the handle of Topic
\* '/voltage' is kept under the key 'voltage'
SubscribeToBatteryVoltage(r, cb) ==
    /\ SubscribeMethod(r, "subscribeToBatteryVoltage", "voltage", "/voltage",
                       "std_msgs/Float32", cb)
    /\ UNCHANGED <<ros, connections, connectionCallbacks, connectPromise, trace,
                   lastConnect, lastRequest, removed, lastSeen,
                   callVars, relayVars, gatewayVars>>

\* subscribeToMap(robotId, callback)
SubscribeToMap(r, cb) ==
    /\ SubscribeMethod(r, "subscribeToMap", "/map", "/map", "nav_msgs/OccupancyGrid", cb)
    /\ UNCHANGED <<ros, connections, connectionCallbacks, connectPromise, trace,
                   lastConnect, lastRequest, removed, lastSeen,
                   callVars, relayVars, gatewayVars>>

\* unsubscribeFromTopic(robotId, topicName)
UnsubscribeFromTopic(r, topicName) ==
    /\ IF Has(r) /\ connection[connections[r]].topics[topicName] # NoTopic
       THEN LET c == connections[r]
                t == connection[c].ros
                topic == connection[c].topics[topicName]
            IN /\ connection' = [connection EXCEPT ![c].topics[topicName] = NoTopic]
               /\ IF topic.subscribed
                  THEN /\ subscriptions' = [subscriptions EXCEPT ![t] =
                              RemoveLast(@, [name |-> topic.name, cb |-> topic.cb,
                                             via |-> topic.via])]
                       /\ lastCall' = Call("unsubscribeFromTopic", r, t, topicName,
                                           "unsubscribed",
                                           << Frame("unsubscribe", topic.name) >>)
                  ELSE /\ UNCHANGED subscriptions
                       /\ lastCall' = Call("unsubscribeFromTopic", r, t, topicName,
                                           "unsubscribed", << >>)
       ELSE /\ UNCHANGED <<connection, subscriptions>>
            /\ lastCall' = Call("unsubscribeFromTopic", r, NoRos, topicName, "noTopic", << >>)
    /\ UNCHANGED <<ros, connections, connectionCallbacks, connectPromise, trace,
                   lastConnect, lastRequest, removed, lastSeen,
                   callVars, relayVars, gatewayVars>>

\* Whether the wrapper a subscribe method gave to Topic.subscribe calls the
\* method's callback for message:
\*   subscribeToArmAngleUpdate: const joints = message.joints || [];
\*                              if (callback && joints.length > 0) callback(joints)
\*   the others:                if (callback) callback(...)
Invokes(l, message) ==
    /\ l.cb # NoCallback
    /\ l.via = "subscribeToArmAngleUpdate" => message.joints # << >>

\* An inbound publish frame for topic name arrives on Ros t: every listener
\* of that name runs. Each wrapper stamps lastSeen of the connection it
\* closed over; the voltage wrapper stores message.data in it as well; then
\* the wrapper calls the callback it was given, the arm-angle wrapper only
\* when the message has joints.
RosMessage(t, name, message) ==
    /\ ros[t].isConnected
    /\ ros[t].readyState \in {"open", "closing"}
    /\ LET ls == Listeners(t, name)
           run == SelectSeq(ls, LAMBDA l : Invokes(l, message))
       IN
       /\ lastCall' = [Call("message", ros[t].robotId, t, name, "dispatched", << >>)
                           EXCEPT !.cbs = [i \in DOMAIN run |-> run[i].cb]]
       /\ lastSeen' = [lastSeen EXCEPT ![t] = IF ls = << >> THEN @ ELSE "message"]
       /\ connection' = [connection EXCEPT ![t].batteryVoltage =
                            IF \E i \in DOMAIN ls : ls[i].via = "subscribeToBatteryVoltage"
                            THEN message.data ELSE @]
    /\ UNCHANGED <<ros, connections, connectionCallbacks, connectPromise,
                   trace, lastConnect, lastRequest, removed, subscriptions,
                   callVars, relayVars, gatewayVars>>

\* ---------------------------------------------------------------- services
\* new Promise(...) around service.callService(request, callback, failedCallback):
\* the call is sent on the Ros and its listener waits for the response that
\* carries the call's id.
NewCall(t, name) ==
    [ros |-> t, name |-> name, promise |-> "pending", delivered |-> "none"]

\* callModeService returning a promise that never settles when the robot is
\* not connected
CallModeService_NoThrow(r) ==
    /\ IF NotConnected(r)
       THEN /\ lastCall' = Call("callModeService", r, NoRos, "/mode/req", "pending", << >>)
            /\ UNCHANGED calls
       ELSE LET t == connection[connections[r]].ros IN
            /\ Len(calls) < MaxCalls
            /\ calls' = Append(calls, NewCall(t, "/mode/req"))
            /\ lastCall' = [Call("callModeService", r, t, "/mode/req", "pending",
                                 << Frame("call_service", "/mode/req") >>)
                            EXCEPT !.id = Len(calls) + 1]
    /\ UNCHANGED <<ros, connection, connections, connectionCallbacks, connectPromise,
                   trace, lastConnect, lastRequest, removed, subscriptions, lastSeen,
                   relayVars, gatewayVars>>

\* callModeService(robotId, command, params)
CallModeService(r) ==
    /\ IF NotConnected(r)
       THEN \* throw new Error(...) in an async method: a rejected promise
            /\ lastCall' = Call("callModeService", r, NoRos, "/mode/req", "rejected", << >>)
            /\ UNCHANGED calls
       ELSE LET t == connection[connections[r]].ros IN
            /\ Len(calls) < MaxCalls
            /\ calls' = Append(calls, NewCall(t, "/mode/req"))
            /\ lastCall' = [Call("callModeService", r, t, "/mode/req", "pending",
                                 << Frame("call_service", "/mode/req") >>)
                            EXCEPT !.id = Len(calls) + 1]
    /\ UNCHANGED <<ros, connection, connections, connectionCallbacks, connectPromise,
                   trace, lastConnect, lastRequest, removed, subscriptions, lastSeen,
                   relayVars, gatewayVars>>

\* getCurrentArmAngles(robotId)
GetCurrentArmAngles(r) ==
    /\ IF NotConnected(r)
       THEN /\ lastCall' = Call("getCurrentArmAngles", r, NoRos, "/CurrentAngle",
                                "rejected", << >>)
            /\ UNCHANGED calls
       ELSE LET t == connection[connections[r]].ros IN
            /\ Len(calls) < MaxCalls
            /\ calls' = Append(calls, NewCall(t, "/CurrentAngle"))
            /\ lastCall' = [Call("getCurrentArmAngles", r, t, "/CurrentAngle", "pending",
                                 << Frame("call_service", "/CurrentAngle") >>)
                            EXCEPT !.id = Len(calls) + 1]
    /\ UNCHANGED <<ros, connection, connections, connectionCallbacks, connectPromise,
                   trace, lastConnect, lastRequest, removed, subscriptions, lastSeen,
                   relayVars, gatewayVars>>

\* callbacks that hand the payload on without parsing it
Resolves_NoParse(name, kind) ==
    kind # "failed"

\* What the callbacks of a call do with the response delivered to them.
\*   failed:    failedCallback -> reject(error)
\*   ok:        callback -> connection.lastSeen = new Date(); resolve(...)
\*   malformed: '/mode/req': JSON.parse(result.response_data) throws before
\*              lastSeen is stamped -> reject(error);
\*              '/CurrentAngle': result.angles || [] -> stamped, resolve([])
Resolves(name, kind) ==
    \/ kind = "ok"
    \/ kind = "malformed" /\ name = "/CurrentAngle"

\* a failed call resolving its promise
ServiceResponse_ResolveOnFailure(i, kind) ==
    /\ i \in DOMAIN calls
    /\ calls[i].delivered = "none"
    /\ LET t == calls[i].ros IN
       /\ ros[t].isConnected
       /\ ros[t].readyState \in {"open", "closing"}
       /\ calls' = [calls EXCEPT ![i].delivered = kind,
                                 ![i].promise = Settle(@, "resolved")]
       /\ lastSeen' = [lastSeen EXCEPT ![t] =
                          IF Resolves(calls[i].name, kind) THEN "response" ELSE @]
       /\ lastCall' = [Call("serviceResponse", ros[t].robotId, t, calls[i].name, kind, << >>)
                       EXCEPT !.id = i]
    /\ UNCHANGED <<ros, connection, connections, connectionCallbacks, connectPromise,
                   trace, lastConnect, lastRequest, removed, subscriptions,
                   relayVars, gatewayVars>>

\* The response to call i arrives on its Ros: the listener registered once
\* for the call's id runs callback or failedCallback.
ServiceResponse(i, kind) ==
    /\ i \in DOMAIN calls
    /\ calls[i].delivered = "none"
    /\ LET t == calls[i].ros IN
       /\ ros[t].isConnected
       /\ ros[t].readyState \in {"open", "closing"}
       /\ calls' = [calls EXCEPT ![i].delivered = kind,
                                 ![i].promise =
                                     Settle(@, IF Resolves(calls[i].name, kind)
                                               THEN "resolved" ELSE "rejected")]
       /\ lastSeen' = [lastSeen EXCEPT ![t] =
                          IF Resolves(calls[i].name, kind) THEN "response" ELSE @]
       /\ lastCall' = [Call("serviceResponse", ros[t].robotId, t, calls[i].name, kind, << >>)
                       EXCEPT !.id = i]
    /\ UNCHANGED <<ros, connection, connections, connectionCallbacks, connectPromise,
                   trace, lastConnect, lastRequest, removed, subscriptions,
                   relayVars, gatewayVars>>

\* ---------------------------------------------------------------- relay
\* The relay's record of one accepted client socket (ws) and of the
\* handlers handleConnection registered for it.
NewClient(robotId) ==
    [robotId |-> robotId, ros |-> NoRos, readyState |-> "open", closeCode |-> 0,
     lookedUp |-> FALSE, onMessage |-> FALSE, listening |-> FALSE, api |-> "",
     received |-> << >>, sent |-> << >>, cleanups |-> 0]

\* Frames handled by the relay so far.
RECURSIVE SumLen(_, _)
SumLen(f, S) ==
    IF S = {} THEN 0
    ELSE LET x == CHOOSE y \in S : TRUE IN Len(f[x]) + SumLen(f, S \ {x})

FrameCount ==
    SumLen([i \in DOMAIN clients |-> clients[i].received], DOMAIN clients)
    + SumLen(emitted, RosIds)

\* getRosInstance answering with a Ros of the robot that is no longer (or
\* not yet) in the registry
GetRosInstance_AnyRos(r) ==
    IF Has(r) THEN connection[connections[r]].ros
    ELSE IF \E t \in RosIds : ros[t].robotId = r
         THEN CHOOSE t \in RosIds : ros[t].robotId = r
         ELSE NoRos

\* this.robotConnectionService.getRosInstance(robotId)
GetRosInstance(r) == IF Has(r) THEN connection[connections[r]].ros ELSE NoRos

\* handleConnection looking the ROS instance up before it checks robotId
HandleConnection_LookupFirst(robotId, api) ==
    /\ LET t == IF robotId \in RobotIds THEN GetRosInstance(robotId) ELSE NoRos
           ws == [NewClient(robotId) EXCEPT !.lookedUp = TRUE]
       IN clients' = Append(clients,
            IF t = NoRos \/ ~ros[t].isConnected
            THEN [ws EXCEPT !.readyState = "closing", !.closeCode = 1011]
            ELSE [ws EXCEPT !.ros = t, !.onMessage = TRUE, !.listening = TRUE,
                            !.api = api])
    /\ UNCHANGED <<ros, connection, connections, connectionCallbacks, connectPromise,
                   trace, lastConnect, lastRequest, removed, topicVars, callVars,
                   written, emitted, gatewayVars>>

\* handleConnection(ws, req); robotId = "" stands for a URL without robotId,
\* api for the listener interface the robot socket offers.
HandleConnection(robotId, api) ==
    /\ LET ws == NewClient(robotId) IN
       clients' = Append(clients,
          IF robotId = ""
          THEN \* ws.close(1008, 'robotId required')
               [ws EXCEPT !.readyState = "closing", !.closeCode = 1008]
          ELSE LET t == GetRosInstance(robotId) IN
               IF t = NoRos \/ ~ros[t].isConnected
               THEN \* ws.close(1011, ...)
                    [ws EXCEPT !.lookedUp = TRUE, !.readyState = "closing",
                               !.closeCode = 1011]
               ELSE [ws EXCEPT !.lookedUp = TRUE, !.ros = t, !.onMessage = TRUE,
                               !.listening = TRUE, !.api = api])
    /\ UNCHANGED <<ros, connection, connections, connectionCallbacks, connectPromise,
                   trace, lastConnect, lastRequest, removed, topicVars, callVars,
                   written, emitted, gatewayVars>>

\* the handlers of a client looking the robot's socket up again for every
\* frame instead of using the one they captured
RobotSocket_LookedUpPerFrame(ws) ==
    IF ws.robotId \in RobotIds /\ Has(ws.robotId)
    THEN GetRosInstance(ws.robotId)
    ELSE ws.ros

\* robotSocket, the variable of handleConnection its handlers close over:
\* assigned once, robotSocket = (ros as any).socket, when the client is
\* accepted
RobotSocket(ws) == ws.ros

\* the client -> robot handler forwarding text frames only
ClientMessage_TextOnly(i, msg) ==
    /\ i \in DOMAIN clients
    /\ clients[i].readyState \in {"open", "closing"}
    /\ FrameCount < MaxFrames
    /\ clients' = [clients EXCEPT ![i].received = Append(@, msg.data)]
    /\ LET t == RobotSocket(clients[i]) IN
       IF clients[i].onMessage /\ ros[t].readyState = "open" /\ ~msg.binary
       THEN written' = [written EXCEPT ![t] =
                           Append(@, [client |-> i, data |-> msg.data])]
       ELSE UNCHANGED written
    /\ UNCHANGED <<ros, connection, connections, connectionCallbacks, connectPromise,
                   trace, lastConnect, lastRequest, removed, topicVars, callVars,
                   emitted, gatewayVars>>

\* A frame arrives from client i: ws.on('message', msg => { if
\* (robotSocket.readyState === WebSocket.OPEN) robotSocket.send(msg) }).
ClientMessage(i, msg) ==
    /\ i \in DOMAIN clients
    /\ clients[i].readyState \in {"open", "closing"}
    /\ FrameCount < MaxFrames
    /\ clients' = [clients EXCEPT ![i].received = Append(@, msg.data)]
    /\ LET t == RobotSocket(clients[i]) IN
       IF clients[i].onMessage /\ ros[t].readyState = "open"
       THEN written' = [written EXCEPT ![t] =
                           Append(@, [client |-> i, data |-> msg.data])]
       ELSE UNCHANGED written
    /\ UNCHANGED <<ros, connection, connections, connectionCallbacks, connectPromise,
                   trace, lastConnect, lastRequest, removed, topicVars, callVars,
                   emitted, gatewayVars>>

\* a robot socket that runs only the listener registered first
OnRobotMessage_FirstListenerOnly(t, data) ==
    /\ ros[t].readyState \in {"open", "closing"}
    /\ ros[t].isConnected
    /\ FrameCount < MaxFrames
    /\ emitted' = [emitted EXCEPT ![t] = Append(@, data.data)]
    /\ clients' = [i \in DOMAIN clients |->
                     IF /\ clients[i].listening
                        /\ clients[i].ros = t
                        /\ clients[i].readyState = "open"
                        /\ \A j \in 1..(i - 1) :
                              ~(clients[j].listening /\ clients[j].ros = t)
                     THEN [clients[i] EXCEPT !.sent = Append(@, data.data)]
                     ELSE clients[i]]
    /\ UNCHANGED <<ros, connection, connections, connectionCallbacks, connectPromise,
                   trace, lastConnect, lastRequest, removed, topicVars, callVars,
                   written, gatewayVars>>

\* A frame arrives from the robot on the socket of Ros t: every relay
\* listener registered on that socket runs onRobotMessage(data).
OnRobotMessage(t, data) ==
    /\ ros[t].readyState \in {"open", "closing"}
    /\ ros[t].isConnected
    /\ FrameCount < MaxFrames
    /\ emitted' = [emitted EXCEPT ![t] = Append(@, data.data)]
    /\ clients' = [i \in DOMAIN clients |->
                     IF /\ clients[i].listening
                        /\ clients[i].ros = t
                        /\ clients[i].readyState = "open"
                     THEN [clients[i] EXCEPT !.sent = Append(@, data.data)]
                     ELSE clients[i]]
    /\ UNCHANGED <<ros, connection, connections, connectionCallbacks, connectPromise,
                   trace, lastConnect, lastRequest, removed, topicVars, callVars,
                   written, gatewayVars>>

\* cleanupListener(robotSocket, listener): off('message', listener) removes
\* the listener; removeEventListener('message', listener) does not find it,
\* since the function registered was a wrapper around it. Neither complains
\* when the listener is not registered or the socket is closed.
CleanupListener(ws) ==
    [ws EXCEPT !.listening = IF ws.api = "on" THEN FALSE ELSE @,
               !.cleanups = @ + 1]

\* the 'error' handler leaving the cleanup to the 'close' handler
ClientError_NoCleanup(i) ==
    /\ i \in DOMAIN clients
    /\ clients[i].readyState \in {"open", "closing"}
    /\ clients' = [clients EXCEPT ![i].readyState = "failed"]
    /\ UNCHANGED <<ros, connection, connections, connectionCallbacks, connectPromise,
                   trace, lastConnect, lastRequest, removed, topicVars, callVars,
                   written, emitted, gatewayVars>>

\* The client socket fails (ws 'error'): the handler runs cleanupListener;
\* the socket delivers no more frames and its 'close' event follows.
ClientError(i) ==
    /\ i \in DOMAIN clients
    /\ clients[i].readyState \in {"open", "closing"}
    /\ clients' = [clients EXCEPT ![i] =
                     [(IF @.ros # NoRos THEN CleanupListener(@) ELSE @)
                         EXCEPT !.readyState = "failed"]]
    /\ UNCHANGED <<ros, connection, connections, connectionCallbacks, connectPromise,
                   trace, lastConnect, lastRequest, removed, topicVars, callVars,
                   written, emitted, gatewayVars>>

\* the client's close handler closing the robot's Session as well
ClientClose_ClosesSession(i) ==
    /\ i \in DOMAIN clients
    /\ clients[i].readyState \in {"open", "closing", "failed"}
    /\ clients' = [clients EXCEPT ![i] =
                     [(IF @.ros # NoRos THEN CleanupListener(@) ELSE @)
                         EXCEPT !.readyState = "closed", !.onMessage = FALSE]]
    /\ IF clients[i].ros # NoRos
       THEN /\ ros' = [ros EXCEPT ![clients[i].ros].readyState =
                          IF @ = "open" THEN "closing" ELSE @]
            /\ connections' = [r \in RobotIds |->
                                 IF connections[r] = clients[i].ros
                                 THEN NoRos ELSE connections[r]]
       ELSE UNCHANGED <<ros, connections>>
    /\ UNCHANGED <<connection, connectionCallbacks, connectPromise,
                   trace, lastConnect, lastRequest, removed, topicVars, callVars,
                   written, emitted, gatewayVars>>

\* The client socket closes (ws 'close', also after 'error'): the handler
\* runs cleanupListener(robotSocket, onRobotMessage).
ClientClose(i) ==
    /\ i \in DOMAIN clients
    /\ clients[i].readyState \in {"open", "closing", "failed"}
    /\ clients' = [clients EXCEPT ![i] =
                     [(IF @.ros # NoRos THEN CleanupListener(@) ELSE @)
                         EXCEPT !.readyState = "closed", !.onMessage = FALSE]]
    /\ UNCHANGED <<ros, connection, connections, connectionCallbacks, connectPromise,
                   trace, lastConnect, lastRequest, removed, topicVars, callVars,
                   written, emitted, gatewayVars>>

\* ---------------------------------------------------------------- gateway
\* const MAX_LINEAR_SPEED = 1.0, in tenths
MAX_LINEAR_SPEED == 10

\* the product of two numbers held in tenths
Times(a, b) == (a * b) \div 10

\* if (!isRobotConnected(robotId)) { server.emit('robot:error', ...); return; }
RobotNotConnected(handler, r) ==
    /\ UNCHANGED statusPromise
    /\ lastEmit' = Emit(handler, "robot:error", r, [error |-> "Robot not connected"])
    /\ UNCHANGED <<ros, connection, connections, connectionCallbacks, connectPromise,
                   trace, lastConnect, lastRequest, removed, topicVars, callVars,
                   relayVars>>

\* the twist handleJoystick builds from the axes (x, y)
JoystickTwist(x, y) ==
    [linear |-> Vec3(Times(y, MAX_LINEAR_SPEED), Times(-x, MAX_LINEAR_SPEED), 0),
     angular |-> Vec3(0, 0, 0)]

\* handleJoystick with the axes taken as they come: linear.x from x, linear.y from y
HandleJoystick_Unrotated(r, x, y) ==
    IF ~IsRobotConnected(r)
    THEN RobotNotConnected("handleJoystick", r)
    ELSE /\ PublishCmdVel(r, Vec3(Times(x, MAX_LINEAR_SPEED),
                                  Times(y, MAX_LINEAR_SPEED), 0), Vec3(0, 0, 0))
         /\ UNCHANGED statusPromise
         /\ lastEmit' = Emit("handleJoystick", "robot:log", r, [x |-> x, y |-> y])

\* @SubscribeMessage('robot:joystick') handleJoystick({ robotId, x, y })
HandleJoystick(r, x, y) ==
    IF ~IsRobotConnected(r)
    THEN RobotNotConnected("handleJoystick", r)
    ELSE LET twist == JoystickTwist(x, y)
         IN /\ PublishCmdVel(r, twist.linear, twist.angular)
            /\ UNCHANGED statusPromise
            /\ lastEmit' = Emit("handleJoystick", "robot:log", r, [x |-> x, y |-> y])

\* handleMove's switch with 'right' moving along +y like 'left'
MoveLinear_RightPositive(direction, speed) ==
    CASE direction = "forward"  -> Vec3(speed, 0, 0)
      [] direction = "backward" -> Vec3(-speed, 0, 0)
      [] direction = "left"     -> Vec3(0, speed, 0)
      [] direction = "right"    -> Vec3(0, speed, 0)
      [] OTHER                  -> Vec3(0, 0, 0)

\* the linear vector handleMove's switch builds; no case matches any other
\* direction and the vector stays zero
MoveLinear(direction, speed) ==
    CASE direction = "forward"  -> Vec3(speed, 0, 0)
      [] direction = "backward" -> Vec3(-speed, 0, 0)
      [] direction = "left"     -> Vec3(0, speed, 0)
      [] direction = "right"    -> Vec3(0, -speed, 0)
      [] OTHER                  -> Vec3(0, 0, 0)

\* @SubscribeMessage('robot:move') handleMove({ robotId, direction, speed })
HandleMove(r, direction, speed) ==
    IF ~IsRobotConnected(r)
    THEN RobotNotConnected("handleMove", r)
    ELSE /\ PublishCmdVel(r, MoveLinear(direction, speed), Vec3(0, 0, 0))
         /\ UNCHANGED statusPromise
         /\ lastEmit' = Emit("handleMove", "robot:log", r,
                             [direction |-> direction, speed |-> speed])

\* angular = { x: 0, y: 0, z: direction === 'left' ? speed : -speed }
RotateAngular(direction, speed) ==
    Vec3(0, 0, IF direction = "left" THEN speed ELSE -speed)

\* @SubscribeMessage('robot:rotate') handleRotate({ robotId, direction, speed })
HandleRotate(r, direction, speed) ==
    IF ~IsRobotConnected(r)
    THEN RobotNotConnected("handleRotate", r)
    ELSE /\ PublishCmdVel(r, Vec3(0, 0, 0), RotateAngular(direction, speed))
         /\ UNCHANGED statusPromise
         /\ lastEmit' = Emit("handleRotate", "robot:log", r,
                             [direction |-> direction, speed |-> speed])

\* @SubscribeMessage('robot:stop') handleStop({ robotId })
HandleStop(r) ==
    IF ~IsRobotConnected(r)
    THEN RobotNotConnected("handleStop", r)
    ELSE /\ PublishCmdVel(r, Vec3(0, 0, 0), Vec3(0, 0, 0))
         /\ UNCHANGED statusPromise
         /\ lastEmit' = Emit("handleStop", "robot:log", r, [text |-> "Robot stopped"])

\* handleEmergency without the isRobotConnected guard
HandleEmergency_NoGuard(r) ==
    /\ PublishCmdVel(r, Vec3(0, 0, 0), Vec3(0, 0, 0))
    /\ UNCHANGED statusPromise
    /\ lastEmit' = Emit("handleEmergency", "robot:log", r,
                        [text |-> "EMERGENCY STOP ACTIVATED!"])

\* @SubscribeMessage('robot:emergency') handleEmergency({ robotId })
HandleEmergency(r) ==
    IF ~IsRobotConnected(r)
    THEN RobotNotConnected("handleEmergency", r)
    ELSE /\ PublishCmdVel(r, Vec3(0, 0, 0), Vec3(0, 0, 0))
         /\ UNCHANGED statusPromise
         /\ lastEmit' = Emit("handleEmergency", "robot:log", r,
                             [text |-> "EMERGENCY STOP ACTIVATED!"])

\* @SubscribeMessage('robot:armControl')
\* handleArmControl({ robotId, joints, id, angle, runTime }): six joints move
\* the whole arm, an id with an angle moves one servo, anything else is dropped.
HandleArmControl(r, payload) ==
    IF ~IsRobotConnected(r)
    THEN RobotNotConnected("handleArmControl", r)
    ELSE IF Len(payload.joints) = 6
    THEN /\ PublishArmControl(r, [id |-> 0, runTime |-> payload.runTime, angle |-> 0,
                                  joints |-> payload.joints])
         /\ UNCHANGED statusPromise
         /\ lastEmit' = Emit("handleArmControl", "robot:log", r,
                             [joints |-> payload.joints, runTime |-> payload.runTime])
    ELSE IF payload.id # << >> /\ payload.angle # << >>
    THEN /\ PublishArmControl(r, [id |-> payload.id[1], runTime |-> payload.runTime,
                                  angle |-> payload.angle[1], joints |-> << >>])
         /\ UNCHANGED statusPromise
         /\ lastEmit' = Emit("handleArmControl", "robot:log", r,
                             [id |-> payload.id[1], angle |-> payload.angle[1],
                              runTime |-> payload.runTime])
    ELSE UNCHANGED vars

\* The invocations of the status callback by the handlers of Ros t that reach
\* `await this.robotsService.updateStatus(robotId, 'offline')`:
\* if (status === 'disconnected' || status === 'error') { ... }
AwaitingUpdate(t) ==
    SelectSeq(trace[t], LAMBDA e : /\ e.ev = "notify"
                                   /\ e.cb # NoCallback
                                   /\ e.status \in {"disconnected", "error"})

\* updateStatus of the oldest unfinished status callback of Ros t completes.
\* When it succeeds the callback emits robot:statusChanged and
\* robot:disconnected and its promise is fulfilled; when it fails the await
\* throws and the promise the callback returned is rejected.
UpdateStatusSettles(t, outcome) ==
    /\ Len(statusPromise[t]) < Len(AwaitingUpdate(t))
    /\ statusPromise' = [statusPromise EXCEPT ![t] = Append(@, outcome)]
    /\ IF outcome = "fulfilled"
       THEN LET status == AwaitingUpdate(t)[Len(statusPromise[t]) + 1].status
            IN lastEmit' = Emit("statusCallback", "robot:disconnected", ros[t].robotId,
                                [reason |-> IF status = "error"
                                            THEN "Connection error"
                                            ELSE "Connection closed"])
       ELSE UNCHANGED lastEmit
    /\ UNCHANGED <<ros, connection, connections, connectionCallbacks, connectPromise,
                   trace, lastConnect, lastRequest, removed, topicVars, callVars,
                   relayVars>>

\* `if (callback) callback(status)`: the handlers of the Ros drop the promise
\* the callback returns, so a rejected one has no handler.
UnhandledRejections ==
    UNION {{<<t, k>> : k \in {j \in DOMAIN statusPromise[t] :
                                 statusPromise[t][j] = "rejected"}} : t \in RosIds}

\* ---------------------------------------------------------------- robot:connect
\* A robot:connect request being handled. ros is the Ros its connectToRobot
\* call created (NoRos when the call returned at once), call the service call
\* its getCurrentArmAngles sent (0 when none was sent), replies the events
\* emitted to the requesting client. pc is the await the handler is at:
\*   "connect"  await this.robotConnectionService.connectToRobot(...)
\*   "call"     the subscriptions are made, getCurrentArmAngles is next
\*   "angles"   await this.robotConnectionService.getCurrentArmAngles(robotId)
\*   "update"   await this.robotsService.updateStatus(robotId, 'online')
\*   "done"     the handler has returned
NewRequest(r, t) ==
    [robotId |-> r, ros |-> t, pc |-> "connect", call |-> 0, replies |-> << >>]

\* an updateStatus call issued by a robot:connect handler ("connect", id the
\* request), a robot:disconnect handler ("disconnect") or a status callback
\* ("callback", id the Ros whose handler invoked it)
Write(by, id, r, value) == [by |-> by, id |-> id, robotId |-> r, value |-> value]

\* The continuation of request k can run: what it awaits has settled.
Ready(k) ==
    \/ /\ requests[k].pc = "connect"
       /\ requests[k].ros # NoRos => connectPromise[requests[k].ros] # "pending"
    \/ requests[k].pc = "call"
    \/ /\ requests[k].pc = "angles"
       /\ requests[k].call # 0 => calls[requests[k].call].promise # "pending"

\* A continuation is queued by the promise it awaits: it runs before the
\* next event is handled.
Runnable == \E k \in DOMAIN requests : Ready(k)

\* handleConnectRobot up to `await connectToRobot`. found is what findOne
\* answered: without record the handler emits robot:error and returns.
ConnectRequested(r, found, cb, ip, port) ==
    /\ Len(requests) < MaxRequests
    /\ IF found
       THEN /\ HandleConnectRobot(r, cb, ip, port)
            /\ requests' = Append(requests,
                              NewRequest(r, IF Has(r) THEN NoRos
                                            ELSE Cardinality(UsedRos) + 1))
       ELSE /\ requests' = Append(requests,
                              [NewRequest(r, NoRos) EXCEPT
                                  !.pc = "done", !.replies = << "robot:error" >>])
            /\ UNCHANGED <<ros, connection, connections, connectionCallbacks,
                           connectPromise, trace, lastConnect, lastRequest, removed,
                           topicVars, callVars, relayVars, gatewayVars>>
    /\ UNCHANGED <<writes, persisted>>

\* The four subscriptions handleConnectRobot makes after connectToRobot, in
\* its order; each gateway callback broadcasts the event it is named after.
ConnectSubscriptions(st) ==
    LET voltage == SubscribeOnce(st, "subscribeToBatteryVoltage", "voltage", "/voltage",
                                 "std_msgs/Float32", "robot:batteryVoltage")
        arm == SubscribeOnce(voltage, "subscribeToArmAngleUpdate", "/ArmAngleUpdate",
                             "/ArmAngleUpdate", "yahboomcar_msgs/ArmJoint",
                             "robot:armAngleUpdate")
        scan == SubscribeOnce(arm, "subscribeToLaserScan", "/scan", "/scan",
                              "sensor_msgs/LaserScan", "robot:scanData")
    IN SubscribeOnce(scan, "subscribeToMap", "/map", "/map", "nav_msgs/OccupancyGrid",
                     "robot:mapData")

\* The connect promise of request k has settled. Rejected: the catch block
\* emits robot:error and the handler returns. Fulfilled: the handler
\* subscribes to battery voltage, arm-angle updates, laser scan and map.
ConnectResumes(k) ==
    /\ k \in DOMAIN requests
    /\ requests[k].pc = "connect"
    /\ Ready(k)
    /\ LET r == requests[k].robotId
           rejected == /\ requests[k].ros # NoRos
                       /\ connectPromise[requests[k].ros] = "rejected"
       IN IF rejected
          THEN /\ requests' = [requests EXCEPT ![k].pc = "done",
                                               ![k].replies = Append(@, "robot:error")]
               /\ lastEmit' = Emit("handleConnectRobot", "robot:error", r,
                                   [text |-> "connection error"])
               /\ UNCHANGED <<connection, subscriptions, lastCall>>
          ELSE /\ requests' = [requests EXCEPT ![k].pc = "call"]
               /\ UNCHANGED lastEmit
               /\ IF NotConnected(r)
                  THEN /\ lastCall' = Call("subscribeToMap", r, NoRos, "/map",
                                           "notConnected", << >>)
                       /\ UNCHANGED <<connection, subscriptions>>
                  ELSE LET c == connections[r]
                           t == connection[c].ros
                           st == ConnectSubscriptions([topics |-> connection[c].topics,
                                                       listeners |-> subscriptions[t]])
                       IN /\ connection' = [connection EXCEPT ![c].topics = st.topics]
                          /\ subscriptions' = [subscriptions EXCEPT ![t] = st.listeners]
                          /\ lastCall' =
                                IF connection[c].topics["/map"] # NoTopic
                                THEN Call("subscribeToMap", r, t, "/map",
                                          "alreadySubscribed", << >>)
                                ELSE Call("subscribeToMap", r, t, "/map", "subscribed",
                                          << Frame("subscribe", "/map") >>)
    /\ UNCHANGED <<ros, connections, connectionCallbacks, connectPromise, trace,
                   lastConnect, lastRequest, removed, lastSeen, callVars, relayVars,
                   statusPromise, writes, persisted>>

\* Request k calls getCurrentArmAngles and awaits the promise it returns; a
\* call that throws (robot not connected) leaves a rejected promise.
ConnectCallsArmAngles(k) ==
    /\ k \in DOMAIN requests
    /\ requests[k].pc = "call"
    /\ GetCurrentArmAngles(requests[k].robotId)
    /\ requests' = [requests EXCEPT ![k].pc = "angles",
                                    ![k].call = IF NotConnected(requests[k].robotId)
                                                THEN 0 ELSE Len(calls) + 1]
    /\ UNCHANGED <<writes, persisted>>

\* The arm-angle promise of request k has settled: resolved, the handler
\* emits robot:currentArmAngles; rejected, it logs a warning. Either way it
\* then emits robot:connected and calls updateStatus(robotId, 'online').
ConnectReplies(k) ==
    /\ k \in DOMAIN requests
    /\ requests[k].pc = "angles"
    /\ Ready(k)
    /\ requests' = [requests EXCEPT ![k].pc = "update",
                                    ![k].replies = Append(@, "robot:connected")]
    /\ writes' = Append(writes, Write("connect", k, requests[k].robotId, "online"))
    /\ lastEmit' = Emit("handleConnectRobot", "robot:connected", requests[k].robotId,
                        [text |-> "Connected to robot"])
    /\ UNCHANGED <<ros, connection, connections, connectionCallbacks, connectPromise,
                   trace, lastConnect, lastRequest, removed, topicVars, callVars,
                   relayVars, statusPromise, persisted>>

\* handleDisconnectRobot: disconnectFromRobot, robot:disconnected to the
\* requesting client, then `await updateStatus(robotId, 'offline')`.
DisconnectRequested(r) ==
    /\ DisconnectFromRobot(r)
    /\ writes' = Append(writes, Write("disconnect", 0, r, "offline"))
    /\ UNCHANGED <<requests, persisted>>

\* The updateStatus calls the status callback issues while the handlers of
\* Ros t run: one for every invocation with 'disconnected' or 'error'.
CallbackWrites(t) ==
    LET added == SubSeq(trace'[t], Len(trace[t]) + 1, Len(trace'[t]))
        lost == SelectSeq(added, LAMBDA e : /\ e.ev = "notify"
                                            /\ e.cb # NoCallback
                                            /\ e.status \in {"disconnected", "error"})
    IN [i \in DOMAIN lost |-> Write("callback", t, ros[t].robotId, "offline")]

\* The 'connection', 'error' and 'close' events of Ros t as the gateway sees
\* them: the handler of connectToRobot runs and, inside it, the status
\* callback up to its await.
TransportOpens(t) ==
    /\ ~Runnable
    /\ RosConnection(t)
    /\ writes' = writes \o CallbackWrites(t)
    /\ UNCHANGED <<requests, persisted>>

TransportErrors(t) ==
    /\ ~Runnable
    /\ RosError(t)
    /\ writes' = writes \o CallbackWrites(t)
    /\ UNCHANGED <<requests, persisted>>

TransportCloses(t) ==
    /\ ~Runnable
    /\ RosClose(t)
    /\ writes' = writes \o CallbackWrites(t)
    /\ UNCHANGED <<requests, persisted>>

\* The oldest updateStatus call completes: findOneAndUpdate stores the status
\* or the call throws. The awaiting code resumes: the status callback as in
\* UpdateStatusSettles; handleConnectRobot broadcasts robot:statusChanged or,
\* from its catch block, emits robot:error; handleDisconnectRobot returns.
UpdateStatusCompletes(outcome) ==
    /\ writes # << >>
    /\ LET w == Head(writes) IN
       /\ writes' = Tail(writes)
       /\ persisted' = [persisted EXCEPT ![w.robotId] =
                           IF outcome = "fulfilled" THEN w.value ELSE @]
       /\ IF w.by = "callback"
          THEN /\ UpdateStatusSettles(w.id, outcome)
               /\ UNCHANGED requests
          ELSE /\ IF w.by = "connect"
                  THEN /\ requests' = [requests EXCEPT
                             ![w.id].pc = "done",
                             ![w.id].replies = IF outcome = "fulfilled" THEN @
                                               ELSE Append(@, "robot:error")]
                       /\ lastEmit' = IF outcome = "fulfilled"
                                      THEN Emit("handleConnectRobot", "robot:statusChanged",
                                                w.robotId, [text |-> "online"])
                                      ELSE Emit("handleConnectRobot", "robot:error",
                                                w.robotId, [text |-> "update failed"])
                  ELSE UNCHANGED <<requests, lastEmit>>
               /\ UNCHANGED <<ros, connection, connections, connectionCallbacks,
                              connectPromise, trace, lastConnect, lastRequest, removed,
                              topicVars, callVars, relayVars, statusPromise>>

\* Nothing that concerns robot r is in flight in the gateway: no
\* robot:connect handler, no robot:disconnect handler, no status callback.
Quiescent(r) ==
    /\ \A k \in DOMAIN requests : requests[k].robotId = r => requests[k].pc = "done"
    /\ \A i \in DOMAIN writes : writes[i].robotId # r

\* ---------------------------------------------------------------- specification
\* Session lifecycle of every robot: the registry, the transports and the
\* status callback.
Next ==
    \/ /\ \E r \in RobotIds, cb \in Callbacks, ip \in Ips, port \in Ports :
              HandleConnectRobot(r, cb, ip, port)
       /\ UNCHANGED requestVars
    \/ /\ \E r \in RobotIds : DisconnectFromRobot(r)
       /\ UNCHANGED requestVars
    \/ /\ \E t \in RosIds : RosConnection(t)
       /\ UNCHANGED requestVars
    \/ /\ \E t \in RosIds : RosError(t)
       /\ UNCHANGED requestVars
    \/ /\ \E t \in RosIds : RosClose(t)
       /\ UNCHANGED requestVars

Spec == Init /\ [][Next]_vars

\* Session lifecycle of one robot together with the operations that fill
\* its topic map.
NextTopics ==
    \/ /\ \E cb \in Callbacks, ip \in Ips, port \in Ports :
              /\ Has("r1") \/ Cardinality(UsedRos) < MaxSessions
              /\ HandleConnectRobot("r1", cb, ip, port)
       /\ UNCHANGED requestVars
    \/ /\ DisconnectFromRobot("r1")
       /\ UNCHANGED requestVars
    \/ /\ \E t \in RosIds : RosConnection(t)
       /\ UNCHANGED requestVars
    \/ /\ \E t \in RosIds : RosError(t)
       /\ UNCHANGED requestVars
    \/ /\ \E t \in RosIds : RosClose(t)
       /\ UNCHANGED requestVars
    \/ /\ PublishCmdVel("r1", Vec3(0, 0, 0), Vec3(0, 0, 0)) /\ UNCHANGED gatewayVars
       /\ UNCHANGED requestVars
    \/ /\ \E payload \in ArmPayloads :
              /\ payload.id # << >> /\ payload.angle # << >>
              /\ PublishArmControl("r1", [id |-> payload.id[1], runTime |-> payload.runTime,
                                          angle |-> payload.angle[1], joints |-> << >>])
              /\ UNCHANGED gatewayVars
       /\ UNCHANGED requestVars
    \/ /\ \E n \in TopicNames : UnsubscribeFromTopic("r1", n)
       /\ UNCHANGED requestVars

SpecTopics == Init /\ [][NextTopics]_vars

\* Session lifecycle of one robot together with subscriptions to '/scan'
\* and the frames the robot publishes on it.
NextSubs ==
    \/ /\ \E cb \in Callbacks, ip \in Ips, port \in Ports :
              /\ Has("r1") \/ Cardinality(UsedRos) < MaxSessions
              /\ HandleConnectRobot("r1", cb, ip, port)
       /\ UNCHANGED requestVars
    \/ /\ DisconnectFromRobot("r1")
       /\ UNCHANGED requestVars
    \/ /\ \E t \in RosIds : RosConnection(t)
       /\ UNCHANGED requestVars
    \/ /\ \E t \in RosIds : RosError(t)
       /\ UNCHANGED requestVars
    \/ /\ \E t \in RosIds : RosClose(t)
       /\ UNCHANGED requestVars
    \/ /\ \E cb \in SubCallbacks :
              SubscribeToTopic("r1", "/scan", "sensor_msgs/LaserScan", cb)
       /\ UNCHANGED requestVars
    \/ /\ \E cb \in SubCallbacks : SubscribeToLaserScan("r1", cb)
       /\ UNCHANGED requestVars
    \/ /\ UnsubscribeFromTopic("r1", "/scan")
       /\ UNCHANGED requestVars
    \/ /\ \E t \in RosIds, message \in Messages : RosMessage(t, "/scan", message)
       /\ UNCHANGED requestVars

SpecSubs == Init /\ [][NextSubs]_vars

\* Session lifecycle of one robot together with its service calls and the
\* responses of the robot.
NextCalls ==
    \/ /\ \E cb \in Callbacks, ip \in Ips, port \in Ports :
              /\ Has("r1") \/ Cardinality(UsedRos) < MaxSessions
              /\ HandleConnectRobot("r1", cb, ip, port)
       /\ UNCHANGED requestVars
    \/ /\ DisconnectFromRobot("r1")
       /\ UNCHANGED requestVars
    \/ /\ \E t \in RosIds : RosConnection(t)
       /\ UNCHANGED requestVars
    \/ /\ \E t \in RosIds : RosError(t)
       /\ UNCHANGED requestVars
    \/ /\ \E t \in RosIds : RosClose(t)
       /\ UNCHANGED requestVars
    \/ /\ CallModeService("r1")
       /\ UNCHANGED requestVars
    \/ /\ GetCurrentArmAngles("r1")
       /\ UNCHANGED requestVars
    \/ /\ \E i \in 1..MaxCalls, kind \in ResponseKinds : ServiceResponse(i, kind)
       /\ UNCHANGED requestVars

SpecCalls == Init /\ [][NextCalls]_vars

\* Session lifecycle of one robot together with the relay clients that ask
\* for it, for a robot without Session, or for no robot at all.
NextRelay ==
    \/ /\ \E cb \in Callbacks, ip \in Ips, port \in Ports :
              /\ Has("r1") \/ Cardinality(UsedRos) < MaxSessions
              /\ HandleConnectRobot("r1", cb, ip, port)
       /\ UNCHANGED requestVars
    \/ /\ DisconnectFromRobot("r1")
       /\ UNCHANGED requestVars
    \/ /\ \E t \in RosIds : RosConnection(t)
       /\ UNCHANGED requestVars
    \/ /\ \E t \in RosIds : RosError(t)
       /\ UNCHANGED requestVars
    \/ /\ \E t \in RosIds : RosClose(t)
       /\ UNCHANGED requestVars
    \/ /\ \E robotId \in RobotIds \cup {""}, api \in SocketApis :
              /\ Len(clients) < MaxClients
              /\ HandleConnection(robotId, api)
       /\ UNCHANGED requestVars
    \/ /\ \E i \in 1..MaxClients, msg \in Frames : ClientMessage(i, msg)
       /\ UNCHANGED requestVars
    \/ /\ \E t \in RosIds, data \in Frames : OnRobotMessage(t, data)
       /\ UNCHANGED requestVars
    \/ /\ \E i \in 1..MaxClients : ClientError(i)
       /\ UNCHANGED requestVars
    \/ /\ \E i \in 1..MaxClients : ClientClose(i)
       /\ UNCHANGED requestVars

SpecRelay == Init /\ [][NextRelay]_vars

\* Session lifecycle of one robot with the callbacks registered for it and
\* for another robot through onConnectionStatusChange at any time.
NextNotify ==
    \/ /\ \E r \in RobotIds, cb \in StatusCallbacks : OnConnectionStatusChange(r, cb)
       /\ UNCHANGED requestVars
    \/ /\ \E ip \in Ips, port \in Ports :
              /\ Has("r1") \/ Cardinality(UsedRos) < MaxSessions
              /\ ConnectToRobot("r1", ip, port)
              /\ UNCHANGED connectionCallbacks
       /\ UNCHANGED requestVars
    \/ /\ DisconnectFromRobot("r1")
       /\ UNCHANGED requestVars
    \/ /\ \E t \in RosIds : RosConnection(t)
       /\ UNCHANGED requestVars
    \/ /\ \E t \in RosIds : RosError(t)
       /\ UNCHANGED requestVars
    \/ /\ \E t \in RosIds : RosClose(t)
       /\ UNCHANGED requestVars

SpecNotify == Init /\ [][NextNotify]_vars

\* Session lifecycle of one robot together with every command handler of the
\* gateway, each with one payload, and direct calls of the two publish methods.
NextGateway ==
    \/ /\ \E cb \in Callbacks, ip \in Ips, port \in Ports :
              /\ Has("r1") \/ Cardinality(UsedRos) < MaxSessions
              /\ HandleConnectRobot("r1", cb, ip, port)
       /\ UNCHANGED requestVars
    \/ /\ DisconnectFromRobot("r1")
       /\ UNCHANGED requestVars
    \/ /\ \E t \in RosIds : RosConnection(t)
       /\ UNCHANGED requestVars
    \/ /\ \E t \in RosIds : RosError(t)
       /\ UNCHANGED requestVars
    \/ /\ \E t \in RosIds : RosClose(t)
       /\ UNCHANGED requestVars
    \/ /\ HandleJoystick("r1", 5, -2)
       /\ UNCHANGED requestVars
    \/ /\ HandleMove("r1", "forward", 5)
       /\ UNCHANGED requestVars
    \/ /\ HandleRotate("r1", "left", 5)
       /\ UNCHANGED requestVars
    \/ /\ HandleStop("r1")
       /\ UNCHANGED requestVars
    \/ /\ HandleEmergency("r1")
       /\ UNCHANGED requestVars
    \/ /\ \E payload \in ArmPayloads : HandleArmControl("r1", payload)
       /\ UNCHANGED requestVars
    \/ /\ PublishCmdVel("r1", Vec3(0, 0, 0), Vec3(0, 0, 0)) /\ UNCHANGED gatewayVars
       /\ UNCHANGED requestVars
    \/ /\ \E payload \in ArmPayloads :
              /\ Len(payload.joints) = 6
              /\ PublishArmControl("r1", [id |-> 0, runTime |-> payload.runTime,
                                          angle |-> 0, joints |-> payload.joints])
              /\ UNCHANGED gatewayVars
       /\ UNCHANGED requestVars

SpecGateway == Init /\ [][NextGateway]_vars

\* Session lifecycle of one robot together with its joystick.
NextJoystick ==
    \/ /\ \E cb \in Callbacks, ip \in Ips, port \in Ports :
              /\ Has("r1") \/ Cardinality(UsedRos) < MaxSessions
              /\ HandleConnectRobot("r1", cb, ip, port)
       /\ UNCHANGED requestVars
    \/ /\ DisconnectFromRobot("r1")
       /\ UNCHANGED requestVars
    \/ /\ \E t \in RosIds : RosConnection(t)
       /\ UNCHANGED requestVars
    \/ /\ \E t \in RosIds : RosError(t)
       /\ UNCHANGED requestVars
    \/ /\ \E t \in RosIds : RosClose(t)
       /\ UNCHANGED requestVars
    \/ /\ \E x \in Axes, y \in Axes : HandleJoystick("r1", x, y)
       /\ UNCHANGED requestVars

SpecJoystick == Init /\ [][NextJoystick]_vars

\* Session lifecycle of one robot together with its discrete motion commands.
NextCommands ==
    \/ /\ \E cb \in Callbacks, ip \in Ips, port \in Ports :
              /\ Has("r1") \/ Cardinality(UsedRos) < MaxSessions
              /\ HandleConnectRobot("r1", cb, ip, port)
       /\ UNCHANGED requestVars
    \/ /\ DisconnectFromRobot("r1")
       /\ UNCHANGED requestVars
    \/ /\ \E t \in RosIds : RosConnection(t)
       /\ UNCHANGED requestVars
    \/ /\ \E t \in RosIds : RosError(t)
       /\ UNCHANGED requestVars
    \/ /\ \E t \in RosIds : RosClose(t)
       /\ UNCHANGED requestVars
    \/ /\ \E d \in MoveDirections, speed \in Speeds : HandleMove("r1", d, speed)
       /\ UNCHANGED requestVars
    \/ /\ \E d \in RotateDirections, speed \in Speeds : HandleRotate("r1", d, speed)
       /\ UNCHANGED requestVars
    \/ /\ HandleStop("r1")
       /\ UNCHANGED requestVars
    \/ /\ HandleEmergency("r1")
       /\ UNCHANGED requestVars

SpecCommands == Init /\ [][NextCommands]_vars

\* Session lifecycle of one robot together with the persistence calls of its
\* status callback.
NextStatus ==
    \/ /\ \E cb \in Callbacks, ip \in Ips, port \in Ports :
              /\ Has("r1") \/ Cardinality(UsedRos) < MaxSessions
              /\ HandleConnectRobot("r1", cb, ip, port)
       /\ UNCHANGED requestVars
    \/ /\ DisconnectFromRobot("r1")
       /\ UNCHANGED requestVars
    \/ /\ \E t \in RosIds : RosConnection(t)
       /\ UNCHANGED requestVars
    \/ /\ \E t \in RosIds : RosError(t)
       /\ UNCHANGED requestVars
    \/ /\ \E t \in RosIds : RosClose(t)
       /\ UNCHANGED requestVars
    \/ /\ \E t \in RosIds, outcome \in {"fulfilled", "rejected"} :
              UpdateStatusSettles(t, outcome)
       /\ UNCHANGED requestVars

SpecStatus == Init /\ [][NextStatus]_vars

\* One Session of one robot together with the subscribe methods and
\* the frames the robot publishes: on the four topics handleConnectRobot
\* subscribes to, on a topic subscribed through subscribeToTopic, and on a
\* topic nothing subscribed to.
NextDispatch ==
    \/ /\ \E cb \in Callbacks, ip \in Ips, port \in Ports :
              /\ UsedRos = {}
              /\ HandleConnectRobot("r1", cb, ip, port)
       /\ UNCHANGED requestVars
    \/ /\ DisconnectFromRobot("r1")
       /\ UNCHANGED requestVars
    \/ /\ \E t \in RosIds : RosConnection(t)
       /\ UNCHANGED requestVars
    \/ /\ \E t \in RosIds : RosError(t)
       /\ UNCHANGED requestVars
    \/ /\ \E t \in RosIds : RosClose(t)
       /\ UNCHANGED requestVars
    \/ /\ SubscribeToBatteryVoltage("r1", "f1")
       /\ UNCHANGED requestVars
    \/ /\ SubscribeToArmAngleUpdate("r1", "f1")
       /\ UNCHANGED requestVars
    \/ /\ SubscribeToLaserScan("r1", "f1")
       /\ UNCHANGED requestVars
    \/ /\ SubscribeToMap("r1", "f1")
       /\ UNCHANGED requestVars
    \/ /\ SubscribeToTopic("r1", "/cmd_vel", "geometry_msgs/Twist", "f2")
       /\ UNCHANGED requestVars
    \/ /\ \E t \in RosIds, message \in Messages,
             name \in {"/voltage", "/ArmAngleUpdate", "/scan", "/map", "/cmd_vel", "/odom"} :
              RosMessage(t, name, message)
       /\ UNCHANGED requestVars

SpecDispatch == Init /\ [][NextDispatch]_vars

\* The gateway handling robot:connect and robot:disconnect for one robot:
\* the handlers' continuations, the transports' events, the robot's answers
\* to the arm-angle call and the persistence calls. A continuation that can
\* run does so before the next event is handled. The robot's record exists
\* and updateStatus succeeds (its failure is SpecStatus's subject).
NextConnect ==
    \/ \E cb \in Callbacks, ip \in Ips, port \in Ports :
           /\ ~Runnable
           /\ ConnectRequested("r1", TRUE, cb, ip, port)
    \/ \E k \in 1..MaxRequests : ConnectResumes(k)
    \/ \E k \in 1..MaxRequests : ConnectCallsArmAngles(k)
    \/ \E k \in 1..MaxRequests : ConnectReplies(k)
    \/ /\ ~Runnable
       /\ Len(writes) < MaxWrites
       /\ DisconnectRequested("r1")
    \/ \E t \in RosIds : TransportOpens(t)
    \/ \E t \in RosIds : TransportErrors(t)
    \/ \E t \in RosIds : TransportCloses(t)
    \/ \E i \in 1..MaxCalls, kind \in {"ok", "failed"} :
           /\ ~Runnable
           /\ ServiceResponse(i, kind)
           /\ UNCHANGED requestVars
    \/ /\ ~Runnable
       /\ UpdateStatusCompletes("fulfilled")

SpecConnect == Init /\ [][NextConnect]_vars

\* The same with the scheduling that answers rely on: a queued
\* continuation runs, a transport being opened reports open or error, and
\* the persistence layer answers. Nothing obliges the robot to answer a
\* service call or to keep its transport open.
FairConnect ==
    /\ SpecConnect
    /\ \A k \in 1..MaxRequests :
          /\ WF_vars(ConnectResumes(k))
          /\ WF_vars(ConnectCallsArmAngles(k))
          /\ WF_vars(ConnectReplies(k))
    /\ \A t \in RosIds :
          WF_vars(ros[t].readyState = "connecting"
                  /\ (TransportOpens(t) \/ TransportErrors(t)))
    /\ WF_vars(~Runnable /\ UpdateStatusCompletes("fulfilled"))

\* robot:connect handled repeatedly for one robot, up to the arm-angle call,
\* with the transports' events and the frames the robot publishes on the
\* four topics the handler subscribes to.
NextResubscribe ==
    \/ \E cb \in Callbacks, ip \in Ips, port \in Ports :
           /\ ~Runnable
           /\ ConnectRequested("r1", TRUE, cb, ip, port)
    \/ \E k \in 1..MaxRequests : ConnectResumes(k)
    \/ \E k \in 1..MaxRequests : ConnectCallsArmAngles(k)
    \/ \E t \in RosIds : TransportOpens(t)
    \/ \E t \in RosIds : TransportErrors(t)
    \/ \E t \in RosIds : TransportCloses(t)
    \/ \E t \in RosIds, message \in Messages,
          name \in {"/voltage", "/ArmAngleUpdate", "/scan", "/map"} :
           /\ ~Runnable
           /\ RosMessage(t, name, message)
           /\ UNCHANGED requestVars

SpecResubscribe == Init /\ [][NextResubscribe]_vars

\* One Session and the relay clients that share its transport.
NextShared ==
    \/ /\ \E cb \in Callbacks, ip \in Ips, port \in Ports :
              /\ UsedRos = {}
              /\ HandleConnectRobot("r1", cb, ip, port)
       /\ UNCHANGED requestVars
    \/ /\ DisconnectFromRobot("r1")
       /\ UNCHANGED requestVars
    \/ /\ \E t \in RosIds : RosConnection(t)
       /\ UNCHANGED requestVars
    \/ /\ \E t \in RosIds : RosError(t)
       /\ UNCHANGED requestVars
    \/ /\ \E t \in RosIds : RosClose(t)
       /\ UNCHANGED requestVars
    \/ /\ \E api \in SocketApis :
              /\ Len(clients) < MaxShared
              /\ HandleConnection("r1", api)
       /\ UNCHANGED requestVars
    \/ /\ \E i \in 1..MaxShared, msg \in Frames : ClientMessage(i, msg)
       /\ UNCHANGED requestVars
    \/ /\ \E t \in RosIds, data \in Frames : OnRobotMessage(t, data)
       /\ UNCHANGED requestVars
    \/ /\ \E i \in 1..MaxShared : ClientClose(i)
       /\ UNCHANGED requestVars

SpecShared == Init /\ [][NextShared]_vars

\* One relay client and the successive Sessions of the robot it asked for.
NextRebind ==
    \/ /\ \E cb \in Callbacks, ip \in Ips, port \in Ports :
              /\ Has("r1") \/ Cardinality(UsedRos) < MaxRelaySessions
              /\ HandleConnectRobot("r1", cb, ip, port)
       /\ UNCHANGED requestVars
    \/ /\ DisconnectFromRobot("r1")
       /\ UNCHANGED requestVars
    \/ /\ \E t \in RosIds : RosConnection(t)
       /\ UNCHANGED requestVars
    \/ /\ \E t \in RosIds : RosError(t)
       /\ UNCHANGED requestVars
    \/ /\ \E t \in RosIds : RosClose(t)
       /\ UNCHANGED requestVars
    \/ /\ \E api \in SocketApis :
              /\ clients = << >>
              /\ HandleConnection("r1", api)
       /\ UNCHANGED requestVars
    \/ /\ \E msg \in Frames : ClientMessage(1, msg)
       /\ UNCHANGED requestVars
    \/ /\ \E t \in RosIds, data \in Frames : OnRobotMessage(t, data)
       /\ UNCHANGED requestVars

SpecRebind == Init /\ [][NextRebind]_vars

\* Two robots side by side: the Session lifecycle of each, subscriptions and
\* service calls of the first and publishes of the second.
NextIsolation ==
    \/ /\ \E r \in RobotIds, cb \in Callbacks, ip \in Ips, port \in Ports :
              /\ Has(r) \/ Cardinality({t \in UsedRos : ros[t].robotId = r}) < MaxSessions
              /\ HandleConnectRobot(r, cb, ip, port)
       /\ UNCHANGED requestVars
    \/ /\ \E r \in RobotIds : DisconnectFromRobot(r)
       /\ UNCHANGED requestVars
    \/ /\ \E t \in RosIds : RosConnection(t)
       /\ UNCHANGED requestVars
    \/ /\ \E t \in RosIds : RosError(t)
       /\ UNCHANGED requestVars
    \/ /\ \E t \in RosIds : RosClose(t)
       /\ UNCHANGED requestVars
    \/ /\ PublishCmdVel("r2", Vec3(0, 0, 0), Vec3(0, 0, 0)) /\ UNCHANGED gatewayVars
       /\ UNCHANGED requestVars
    \/ /\ SubscribeToTopic("r1", "/scan", "sensor_msgs/LaserScan", "f1")
       /\ UNCHANGED requestVars
    \/ /\ UnsubscribeFromTopic("r1", "/scan")
       /\ UNCHANGED requestVars
    \/ /\ CallModeService("r1")
       /\ UNCHANGED requestVars

SpecIsolation == Init /\ [][NextIsolation]_vars

\* ---------------------------------------------------------------- claims

\* C1: at most one transport per robot id is open or being opened at any
\* time, whatever the interleaving of connect calls.
C1_AtMostOneTransport ==
    \A r \in RobotIds :
        Cardinality({t \in RosIds : /\ ros[t].robotId = r
                                    /\ ros[t].readyState \in {"connecting", "open"}}) <= 1

\* C2: a connect call for a robot id that has a registered Session returns
\* success, opens no transport, leaves the Session (transport handle, topic
\* map) as it was and invokes no status callback.
C2_IdempotentConnect ==
    [][\A r \in RobotIds :
          (Has(r) /\ lastConnect' # lastConnect /\ lastConnect'.robotId = r)
          => /\ lastConnect'.result = "fulfilled"
             /\ UNCHANGED <<ros, connection, connections, connectPromise, trace>>]_vars

C2_Witness ==
    \E r \in RobotIds :
        /\ Has(r)
        /\ lastConnect = [robotId |-> r, result |-> "fulfilled", ros |-> NoRos]
        /\ connection[connections[r]].topics["/cmd_vel"] # NoTopic

\* C3: over the lifetime of a Session the status callback is invoked with
\* exactly one of `disconnected` and `error`: never both, and once the
\* transport has closed never neither.
C3_ExactlyOneTerminalEvent ==
    \A t \in RosIds :
        LET n == Cardinality(NotifyIdx(t, "disconnected") \cup NotifyIdx(t, "error"))
        IN  /\ n <= 1
            /\ ros[t].readyState = "closed" => n = 1

\* C4: the step in which a transport opens registers the Session, then
\* invokes the status callback with `connected`, then resolves the connect
\* call; `connected` is delivered once for that open and in no other step.
C4_ConnectedOnOpen ==
    [][\A t \in RosIds :
          LET opens == ros[t].readyState = "connecting" /\ ros'[t].readyState = "open"
          IN  /\ opens =>
                   /\ connections'[ros[t].robotId] = t
                   /\ connection'[t].isConnected
                   /\ connectPromise'[t] = "fulfilled"
                   /\ Cardinality(NotifyIdx(t, "connected")') = 1
                   /\ \E i, j, k \in DOMAIN trace'[t] :
                         /\ Len(trace[t]) < i /\ i < j /\ j < k
                         /\ trace'[t][i].ev = "set"
                         /\ j \in NotifyIdx(t, "connected")'
                         /\ trace'[t][k].ev = "resolve"
              /\ ~opens => NotifyIdx(t, "connected")' = NotifyIdx(t, "connected")]_vars

C4_Witness ==
    \E t \in RosIds :
        /\ ros[t].readyState = "open"
        /\ connections[ros[t].robotId] = t
        /\ NotifyIdx(t, "connected") # {}
        /\ connectPromise[t] = "fulfilled"

\* C5: a transport that reports an error without ever having opened has its
\* connect call rejected, the status callback given `error`, and is not
\* registered.
C5_ErrorBeforeOpenRejects ==
    \A t \in RosIds :
        (ros[t].errored /\ connection[t] = NoConnection)
        => /\ connectPromise[t] = "rejected"
           /\ NotifyIdx(t, "error") # {}
           /\ connections[ros[t].robotId] # t

\* C6: from the return of disconnect(r) until the next connect(r) request,
\* get(r) is absent and isConnected(r) is false.
C6_AbsentAfterDisconnect ==
    \A r \in RobotIds :
        lastRequest[r] = "disconnect" => (~Has(r) /\ ~IsRobotConnected(r))

\* C7: the transport opened by a connect that follows a disconnect (one that
\* removed a registered Session), once open, has its connect call resolved
\* and its Session registered, and the Session stays registered for as long
\* as that transport stays open.
\* (Stated for the case where no other transport of the robot is open or
\* being opened, so that no concurrent connect is involved.)
C7_FreshSessionStays ==
    \A t \in RosIds :
        (trace[t] # << >> /\ trace[t][1].status = "afterDisconnect"
           /\ ros[t].readyState = "open"
           /\ \A u \in RosIds \ {t} :
                 ros[u].robotId = ros[t].robotId
                 => ros[u].readyState \notin {"connecting", "open"})
        => /\ connectPromise[t] = "fulfilled"
           /\ connections[ros[t].robotId] = t
           /\ connection[t].isConnected

\* C8: a robot id whose Session was removed from the registry is not
\* registered again before a connect request is issued after the removal.
C8_NoImplicitRecreate ==
    \A r \in RobotIds : removed[r] => ~Has(r)

\* C9: once the status callback has been given `disconnected` or `error`
\* for a Session, that Session is no longer in the registry.
C9_TerminalRemoves ==
    \A t \in RosIds :
        (NotifyIdx(t, "disconnected") \cup NotifyIdx(t, "error")) # {}
        => connections[ros[t].robotId] # t

\* C10: an error of a transport that had opened leaves its connect call
\* resolved; the status callback is given `error` after the call resolved,
\* and `disconnected` after `error` when the transport closes.
C10_LateErrorToNotifier ==
    \A t \in RosIds :
        (ros[t].errored /\ connection[t] # NoConnection)
        => /\ connectPromise[t] = "fulfilled"
           /\ \E k \in EvIdx(t, "resolve"), e \in NotifyIdx(t, "error") : k < e
           /\ ros[t].readyState = "closed"
                => \E e \in NotifyIdx(t, "error"), d \in NotifyIdx(t, "disconnected") : e < d

C10_Witness ==
    \E t \in RosIds :
        /\ ros[t].errored
        /\ connection[t] # NoConnection
        /\ ros[t].readyState = "closed"

\* C11: a disconnect of a registered Session closes its transport, removes
\* the Session from the registry and unsubscribes every handle of its topic
\* map, so that no subscription of that Session is active afterwards.
C11_DisconnectUnsubscribesAll ==
    [][\A r \in RobotIds :
          (Has(r) /\ connections'[r] = NoRos /\ trace' = trace)
          => LET t == connection[connections[r]].ros IN
             /\ ros'[t].readyState # "open"
             /\ ~Has(r)'
             /\ subscriptions'[t] = << >>]_vars

\* C12: subscribing is idempotent per (Session, topic): however many
\* subscribe calls were made, the transport carries at most one active
\* subscription for the topic and an inbound frame invokes one callback only.
C12_OneSubscriptionPerTopic ==
    /\ \A t \in RosIds, n \in TopicNames : Len(Listeners(t, n)) <= 1
    /\ lastCall.op = "message" => Len(lastCall.cbs) <= 1

PublishOps == {"publishCmdVel", "publishArmControl"}

\* C13: a publish on a Connected Session succeeds; when the topic map has no
\* handle for the topic it creates one and sends the payload, when it has one
\* it reuses that handle (no second advertisement); afterwards the map holds
\* the one handle for the topic, the other entries are untouched, and the
\* call has sent exactly one message.
C13_PublishLazyHandle ==
    [][\A r \in RobotIds :
          (/\ ~NotConnected(r)
           /\ lastCall' # lastCall
           /\ lastCall'.op \in PublishOps
           /\ lastCall'.robotId = r)
          => LET c == connections[r]
                 n == lastCall'.name
                 old == connection[c].topics[n]
                 sent == lastCall'.sent
             IN /\ lastCall'.result = "published"
                /\ connection'[c].topics[n] # NoTopic
                /\ connection'[c].topics[n].name = n
                /\ old # NoTopic =>
                      connection'[c].topics[n] = [old EXCEPT !.advertised = TRUE]
                /\ (old # NoTopic /\ old.advertised) =>
                      Len(sent) = 1 /\ sent[1].op = "publish"
                /\ Cardinality({i \in DOMAIN sent : sent[i].op = "publish"}) = 1
                /\ \A i \in DOMAIN sent : sent[i].name = n
                /\ \A m \in TopicNames \ {n} :
                      connection'[c].topics[m] = connection[c].topics[m]]_vars

\* A publish that found its handle in the topic map and reused it, while the
\* map also holds the handle of the other published topic.
C13_Witness ==
    /\ lastCall.op = "publishCmdVel"
    /\ lastCall.result = "published"
    /\ Len(lastCall.sent) = 1
    /\ lastCall.sent[1].op = "publish"
    /\ connection[lastCall.ros].topics["/TargetAngle"] # NoTopic

\* C14: unsubscribe(r, topic) on a Session that holds a handle for the topic
\* removes the handle and leaves no listener for the topic on that Session's
\* transport, so no later inbound frame invokes a callback subscribed for it;
\* with no handle or no Session it changes nothing.
C14_UnsubscribeDeactivates ==
    [][\A r \in RobotIds :
          (/\ lastCall' # lastCall
           /\ lastCall'.op = "unsubscribeFromTopic"
           /\ lastCall'.robotId = r)
          => LET n == lastCall'.name IN
             IF Has(r) /\ connection[connections[r]].topics[n] # NoTopic
             THEN LET c == connections[r]
                      t == connection[c].ros
                  IN /\ connection'[c].topics[n] = NoTopic
                     /\ SelectSeq(subscriptions'[t], LAMBDA l : l.name = n) = << >>
             ELSE UNCHANGED <<ros, connection, connections, subscriptions, lastSeen>>]_vars

\* C15: the future of a service call settles at most once, and only in the
\* step that delivers the robot's answer to that call: it resolves when a
\* usable response arrives and rejects when the transport reports the call
\* failed; no other step (no timer, no lifecycle event) settles it, so
\* without an answer it stays pending.
C15_SettlesOnceByResponse ==
    [][\A i \in DOMAIN calls :
          /\ calls[i].promise # "pending" => calls'[i].promise = calls[i].promise
          /\ calls'[i].promise # calls[i].promise
             => /\ lastCall'.op = "serviceResponse"
                /\ lastCall'.id = i
                /\ calls[i].delivered = "none"
                /\ calls'[i].delivered = lastCall'.result
          /\ calls'[i].delivered = "none" => calls'[i].promise = "pending"
          /\ calls'[i].delivered = "failed" => calls'[i].promise = "rejected"
          /\ (calls'[i].promise = "resolved" /\ calls[i].name = "/mode/req")
             => calls'[i].delivered = "ok"
          /\ calls'[i].delivered = "ok" => calls'[i].promise = "resolved"]_vars

\* One call resolved by its response, another rejected by a reported failure.
C15_Witness ==
    \E i, j \in DOMAIN calls :
        /\ calls[i].promise = "resolved" /\ calls[i].delivered = "ok"
        /\ calls[j].promise = "rejected" /\ calls[j].delivered = "failed"

\* C16: when a Session disconnects (its transport reports an error or
\* closes, or the Session is explicitly disconnected) while a service call
\* is outstanding, the step that ends the Session rejects the call's future.
C16_DisconnectRejectsPending ==
    [][\A i \in DOMAIN calls :
          LET t == calls[i].ros
              r == ros[t].robotId
          IN (/\ calls[i].promise = "pending"
              /\ \/ ~ros[t].errored /\ ros'[t].errored
                 \/ ros[t].readyState = "open" /\ ros'[t].readyState # "open"
                 \/ connections[r] = t /\ connections'[r] # t)
             => calls'[i].promise = "rejected"]_vars

ServiceOps == {"callModeService", "getCurrentArmAngles"}

\* C17: a service call for a robot that has no registered Session, or whose
\* Session is not Connected, is rejected at once with the not-connected error:
\* no request is created or sent and the registry and its Sessions are as
\* before.
C17_CallWhenNotConnectedRejects ==
    [][\A r \in RobotIds :
          (/\ NotConnected(r)
           /\ lastCall' # lastCall
           /\ lastCall'.op \in ServiceOps
           /\ lastCall'.robotId = r)
          => /\ lastCall'.result = "rejected"
             /\ lastCall'.sent = << >>
             /\ UNCHANGED <<calls, ros, connection, connections, subscriptions,
                            lastSeen>>]_vars

\* A call made after the Session was removed, while an earlier call of that
\* Session is still recorded.
C17_Witness ==
    /\ lastCall.op = "callModeService"
    /\ lastCall.result = "rejected"
    /\ removed[lastCall.robotId]
    /\ calls # << >>

\* C18: a response to a mode call whose payload cannot be parsed rejects
\* the call it answers and nothing else: the registry, the Sessions (their
\* Connected flag and topic map), the listeners and lastSeen are unchanged
\* and every other call is left as it was.
C18_ParseFailureRejectsOnlyThatCall ==
    [][\A i \in DOMAIN calls :
          (/\ calls[i].name = "/mode/req"
           /\ calls[i].delivered = "none"
           /\ calls'[i].delivered = "malformed")
          => /\ calls[i].promise = "pending" => calls'[i].promise = "rejected"
             /\ \A j \in DOMAIN calls \ {i} : calls'[j] = calls[j]
             /\ DOMAIN calls' = DOMAIN calls
             /\ UNCHANGED <<ros, connection, connections, subscriptions, lastSeen>>]_vars

\* After the unparsable response rejected one call, another call of the
\* still registered and Connected Session was resolved by its own response.
C18_Witness ==
    \E i, j \in DOMAIN calls :
        /\ calls[i].name = "/mode/req"
        /\ calls[i].delivered = "malformed" /\ calls[i].promise = "rejected"
        /\ lastCall.op = "serviceResponse" /\ lastCall.id = j /\ j # i
        /\ calls[j].promise = "resolved"
        /\ IsRobotConnected(lastCall.robotId)
        /\ connections[lastCall.robotId] = calls[i].ros

\* Client i is paired with Ros t and both sockets are open.
Paired(i, t) ==
    /\ clients[i].ros = t
    /\ clients[i].readyState = "open"
    /\ ros[t].readyState = "open"

\* C19: while a relay client is paired with a Session's transport and both
\* sockets are open, every frame received from the client is written once,
\* unaltered and in order, to the transport, and every frame received from the
\* transport is written once, unaltered and in order, to the client, text and
\* binary frames alike; nothing else is ever written by the relay.
C19_RelayFidelity ==
    [][/\ \A i \in DOMAIN clients, t \in RosIds :
             (Paired(i, t) /\ clients'[i].received # clients[i].received)
             => LET msg == clients'[i].received[Len(clients'[i].received)]
                IN written' = [written EXCEPT ![t] =
                                  Append(@, [client |-> i, data |-> msg])]
       /\ \A i \in DOMAIN clients, t \in RosIds :
             (Paired(i, t) /\ emitted'[t] # emitted[t])
             => clients'[i].sent =
                    Append(clients[i].sent, emitted'[t][Len(emitted'[t])])
       /\ \A t \in RosIds :
             written'[t] # written[t]
             => \E i \in DOMAIN clients :
                   /\ clients'[i].received # clients[i].received
                   /\ written'[t] = Append(written[t],
                         [client |-> i,
                          data |-> clients'[i].received[Len(clients'[i].received)]])
       /\ \A i \in DOMAIN clients :
             clients'[i].sent # clients[i].sent
             => LET t == clients[i].ros IN
                /\ t # NoRos
                /\ emitted'[t] # emitted[t]
                /\ clients'[i].sent =
                       Append(clients[i].sent, emitted'[t][Len(emitted'[t])])]_vars

\* A paired client that was sent a binary frame of the robot after a frame
\* of its own had been written to the transport.
C19_Witness ==
    \E i \in DOMAIN clients, t \in RosIds :
        /\ Paired(i, t)
        /\ connections[ros[t].robotId] = t
        /\ clients[i].sent = << "bytes" >>
        /\ Len(written[t]) = 1 /\ written[t][1].client = i

\* C20: a relay client that connected without a RobotId was closed with
\* code 1008 ("bad request") before any Session lookup; no handler was
\* registered for it on either socket and no frame is forwarded for it in
\* either direction.
C20_NoRobotIdBadRequest ==
    \A i \in DOMAIN clients :
        clients[i].robotId = ""
        => /\ clients[i].closeCode = 1008
           /\ clients[i].readyState # "open"
           /\ ~clients[i].lookedUp
           /\ clients[i].ros = NoRos
           /\ ~clients[i].onMessage
           /\ ~clients[i].listening
           /\ clients[i].sent = << >>
           /\ \A t \in RosIds : \A k \in DOMAIN written[t] : written[t][k].client # i

\* A client without RobotId that sent a frame before its socket finished
\* closing, while the robot's Session was Connected and its transport
\* delivered a frame.
C20_Witness ==
    \E i \in DOMAIN clients, t \in RosIds :
        /\ clients[i].robotId = ""
        /\ clients[i].received # << >>
        /\ ros[t].readyState = "open"
        /\ emitted[t] # << >>

\* C21: a relay client that names a robot with no registered, Connected
\* Session is closed with code 1011 ("resource unavailable"): no handler is
\* registered for it on either socket, and no frame is ever forwarded for a
\* client closed that way.
C21_NoSessionUnavailable ==
    [][/\ (Len(clients') = Len(clients) + 1)
          => LET ws == clients'[Len(clients')] IN
             (ws.robotId \in RobotIds /\ NotConnected(ws.robotId))
             => /\ ws.closeCode = 1011
                /\ ws.readyState # "open"
                /\ ws.ros = NoRos
                /\ ~ws.onMessage
                /\ ~ws.listening
       /\ \A i \in DOMAIN clients' :
             clients'[i].closeCode = 1011
             => /\ clients'[i].sent = << >>
                /\ ~clients'[i].onMessage
                /\ ~clients'[i].listening
                /\ \A t \in RosIds : \A k \in DOMAIN written'[t] :
                      written'[t][k].client # i]_vars

\* A client that asked for a robot whose Session had been removed was
\* closed with 1011 and sent a frame before its socket finished closing.
C21_Witness ==
    \E i \in DOMAIN clients :
        /\ clients[i].robotId \in RobotIds
        /\ removed[clients[i].robotId]
        /\ clients[i].closeCode = 1011
        /\ clients[i].received # << >>

\* C22: after a relay client has disconnected or failed, the listener the
\* relay registered for it on the robot socket is registered no more,
\* whichever listener interface the socket offers, so no later frame of
\* the robot invokes it.
C22_CleanupRemovesListener ==
    \A i \in DOMAIN clients :
        clients[i].readyState = "closed" => ~clients[i].listening

C24_CleanupIdempotent ==
    [][\A i \in DOMAIN clients :
          /\ (clients[i].readyState = "failed" /\ clients'[i].readyState = "closed")
             => /\ clients'[i].listening = clients[i].listening
                /\ clients'[i].cleanups = IF clients[i].ros # NoRos THEN 2 ELSE 0
                /\ UNCHANGED <<ros, connection, connections, subscriptions, written,
                               emitted>>
                /\ \A j \in DOMAIN clients \ {i} : clients'[j] = clients[j]
          /\ (/\ clients[i].ros # NoRos
              /\ ros[clients[i].ros].readyState = "closed"
              /\ clients'[i].cleanups # clients[i].cleanups)
             => /\ clients'[i].cleanups = clients[i].cleanups + 1
                /\ clients'[i].listening => clients[i].listening
                /\ UNCHANGED <<ros, connection, connections, subscriptions, written,
                               emitted>>
                /\ \A j \in DOMAIN clients \ {i} : clients'[j] = clients[j]]_vars

\* The cleanup has run twice for a client whose listener the first run
\* removed, the second time with the robot socket already closed.
C24_Witness ==
    \E i \in DOMAIN clients :
        /\ clients[i].cleanups = 2
        /\ clients[i].api = "on"
        /\ clients[i].readyState = "closed"
        /\ ros[clients[i].ros].readyState = "closed"

\* The entries a step appends to the trace of Ros t.
Appended(t) == SubSeq(trace'[t], Len(trace[t]) + 1, Len(trace'[t]))

\* C25: the Status Notifier holds one callback per robot id and the last
\* registration wins: a registration replaces the robot's callback and no
\* other robot's, and every status event of a transport of robot r invokes,
\* once, the callback registered for r at that moment and no other.
C25_LastRegistrationWins ==
    [][/\ (lastCall' # lastCall /\ lastCall'.op = "onConnectionStatusChange")
          => connectionCallbacks' =
                [connectionCallbacks EXCEPT ![lastCall'.robotId] = lastCall'.name]
       /\ \A t \in RosIds :
             (trace[t] # << >> /\ trace'[t] # trace[t])
             => LET new == Appended(t)
                    inv == {k \in DOMAIN new : new[k].ev = "notify"}
                IN /\ Cardinality(inv) = 1
                   /\ \A k \in inv : new[k].cb = connectionCallbacks[ros[t].robotId]]_vars

\* Robot r1's callback was replaced between two status events of one of
\* its transports: the first invoked cb1, the later one cb2, while the
\* other robot has cb1 registered.
C25_Witness ==
    \E t \in RosIds :
        /\ ros[t].robotId = "r1"
        /\ connectionCallbacks["r2"] = "cb1"
        /\ \E i \in NotifyIdx(t, "connected"), j \in NotifyIdx(t, "disconnected") :
              /\ i < j
              /\ trace[t][i].cb = "cb1"
              /\ trace[t][j].cb = "cb2"

\* C26: a publish or a control command for a robot with no connected Session
\* sends nothing on any transport, signals the failure (the warning of the
\* publish methods, the robot:error event of the handlers) and leaves the
\* registry, the transports and every topic map unchanged.
C26_NotConnectedCommandInert ==
    [][/\ (/\ lastCall' # lastCall
           /\ lastCall'.op \in PublishOps
           /\ NotConnected(lastCall'.robotId))
          => /\ lastCall'.result = "notConnected"
             /\ lastCall'.sent = << >>
             /\ UNCHANGED <<ros, connection, connections, subscriptions, lastSeen,
                            calls, written>>
       /\ (lastEmit' # lastEmit /\ NotConnected(lastEmit'.robotId))
          => /\ lastEmit'.event = "robot:error"
             /\ UNCHANGED <<ros, connection, connections, subscriptions, lastSeen,
                            lastCall, calls, written>>]_vars

\* A Session that has published on '/cmd_vel' lost its connection; after
\* that a publish was refused with the warning and a handler answered
\* robot:error.
C26_Witness ==
    /\ NotConnected("r1")
    /\ \E t \in RosIds : connection[t].topics["/cmd_vel"] # NoTopic
    /\ lastCall.op = "publishCmdVel"
    /\ lastCall.result = "notConnected"
    /\ lastEmit.event = "robot:error"

\* the publish frames among the frames a call sent
Published(sent) == SelectSeq(sent, LAMBDA f : f.op = "publish")

\* C27: every joystick input (x, y) on a connected robot publishes exactly one
\* motion command, on '/cmd_vel', with linear.x = y * maxSpeed,
\* linear.y = -x * maxSpeed, linear.z = 0 and angular = (0, 0, 0), maxSpeed
\* being 1.0; input (0.5, -0.2) yields linear = (-0.2, -0.5, 0).
C27_JoystickNormalization ==
    [][(/\ lastEmit' # lastEmit \/ lastCall' # lastCall
        /\ lastEmit'.handler = "handleJoystick"
        /\ lastEmit'.event = "robot:log")
       => LET x == lastEmit'.content.x
              y == lastEmit'.content.y
              out == Published(lastCall'.sent)
          IN /\ IsRobotConnected(lastEmit'.robotId)
             /\ Len(out) = 1
             /\ \A i \in DOMAIN lastCall'.sent : lastCall'.sent[i].name = "/cmd_vel"
             /\ out[1].msg.linear = [x |-> y, y |-> 0 - x, z |-> 0]
             /\ out[1].msg.angular = [x |-> 0, y |-> 0, z |-> 0]
             /\ (x = 5 /\ y = -2) => out[1].msg.linear = [x |-> -2, y |-> -5, z |-> 0]]_vars

\* The joystick input (0.5, -0.2) was published on a connected robot.
C27_Witness ==
    /\ lastEmit = Emit("handleJoystick", "robot:log", "r1", [x |-> 5, y |-> -2])
    /\ lastCall.result = "published"
    /\ Published(lastCall.sent) # << >>
    /\ Published(lastCall.sent)[1].msg.linear = [x |-> -2, y |-> -5, z |-> 0]

\* C28: on a connected robot each move, rotate, stop or emergency-stop event
\* publishes exactly one motion command, on '/cmd_vel', equal to the
\* reference table: forward/backward give linear.x = +speed/-speed,
\* left/right give linear.y = +speed/-speed, rotate left/right give
\* angular.z = +speed/-speed, every other component is 0, and stop and
\* emergency-stop publish the same all-zero payload.
C28_DiscreteNormalization ==
    [][(/\ lastEmit' # lastEmit \/ lastCall' # lastCall
        /\ lastEmit'.handler \in {"handleMove", "handleRotate", "handleStop",
                                  "handleEmergency"}
        /\ lastEmit'.event = "robot:log")
       => LET h == lastEmit'.handler
              c == lastEmit'.content
              out == Published(lastCall'.sent)
              zero == [x |-> 0, y |-> 0, z |-> 0]
              table == [forward  |-> [x |-> 1, y |-> 0],
                        backward |-> [x |-> -1, y |-> 0],
                        left     |-> [x |-> 0, y |-> 1],
                        right    |-> [x |-> 0, y |-> -1]]
              linear == IF h = "handleMove"
                        THEN [x |-> table[c.direction].x * c.speed,
                              y |-> table[c.direction].y * c.speed, z |-> 0]
                        ELSE zero
              angular == IF h = "handleRotate"
                         THEN [x |-> 0, y |-> 0,
                               z |-> table[c.direction].y * c.speed]
                         ELSE zero
          IN /\ IsRobotConnected(lastEmit'.robotId)
             /\ Len(out) = 1
             /\ \A i \in DOMAIN lastCall'.sent : lastCall'.sent[i].name = "/cmd_vel"
             /\ out[1].msg = [linear |-> linear, angular |-> angular]]_vars

\* A move to the right at speed 0.5 was published on a connected robot whose
\* '/cmd_vel' handle was already advertised.
C28_Witness ==
    /\ lastEmit = Emit("handleMove", "robot:log", "r1",
                       [direction |-> "right", speed |-> 5])
    /\ lastCall.result = "published"
    /\ Len(lastCall.sent) = 1
    /\ lastCall.sent[1].msg.linear = [x |-> 0, y |-> -5, z |-> 0]

\* C29: no operation ends in an unhandled failure; in particular a
\* persistence failure inside the status callback ends in a signaled outcome
\* and never in a promise rejection that nothing handles.
C29_NoUnhandledFailure == UnhandledRejections = {}

\* C30: the close or error event of a transport never marks as disconnected,
\* and never deletes from the registry, an entry of the same robot id that
\* belongs to the Session of another transport.
C30_EventAffectsOwnSession ==
    [][\A t \in RosIds :
          LET r == ros[t].robotId
          IN (/\ ros[t].readyState # "unused"
              /\ \/ ros'[t].errored # ros[t].errored
                 \/ ros'[t].readyState = "closed" /\ ros[t].readyState # "closed"
              /\ Has(r)
              /\ connections[r] # t)
             => /\ connections'[r] = connections[r]
                /\ connection'[connections[r]].isConnected
                      = connection[connections[r]].isConnected]_vars

\* C31: once the transport a connectToRobot call opened has reported open or
\* error, the promise the call returned is resolved or rejected, also when
\* another connect of the same robot id has registered a Session meanwhile.
C31_ConnectCallSettles ==
    \A t \in RosIds :
        (ros[t].readyState = "open" \/ ros[t].errored)
        => connectPromise[t] \in {"fulfilled", "rejected"}

\* C34: at most one call per Session and service name is outstanding at any
\* time: no two calls to the same name sent on the same transport are both
\* waiting for their response.
C34_OnePendingCallPerName ==
    \A i, j \in DOMAIN calls :
        (/\ i < j
         /\ calls[i].ros = calls[j].ros
         /\ calls[i].name = calls[j].name)
        => ~(/\ calls[i].promise = "pending" /\ calls[i].delivered = "none"
             /\ calls[j].promise = "pending" /\ calls[j].delivered = "none")

\* getConnectedRobots(): Array.from(this.connections.keys())
GetConnectedRobots == {r \in RobotIds : Has(r)}

\* C37: between handlers every Session in the registry has isConnected =
\* true and a transport that has opened and not closed, so
\* getConnectedRobots() is the set of robot ids for which isRobotConnected
\* is true.
C37_RegistryConsistent ==
    /\ \A r \in RobotIds :
          Has(r) => LET c == connections[r]
                    IN /\ connection[c].isConnected
                       /\ ros[connection[c].ros].robotId = r
                       /\ ros[connection[c].ros].readyState \in {"open", "closing"}
    /\ GetConnectedRobots = {r \in RobotIds : IsRobotConnected(r)}

\* One robot is registered on a transport that has reported an error and
\* not yet closed; the other had a Session whose transport has closed.
C37_Witness ==
    /\ Has("r1")
    /\ ros[connection[connections["r1"]].ros].errored
    /\ ~Has("r2")
    /\ \E t \in RosIds : ros[t].robotId = "r2" /\ ros[t].readyState = "closed"
                          /\ connection[t] # NoConnection

\* The registry entry, the status callback, a topic map, a telemetry stamp,
\* a listener or the notifier trace of robot r changes in this step.
Touched(r) ==
    \/ connections'[r] # connections[r]
    \/ connectionCallbacks'[r] # connectionCallbacks[r]
    \/ \E t \in RosIds :
          /\ ros'[t].robotId = r
          /\ \/ connection'[t] # connection[t]
             \/ lastSeen'[t] # lastSeen[t]
             \/ subscriptions'[t] # subscriptions[t]
             \/ trace'[t] # trace[t]

\* This step is a request, a call or a transport event of robot r.
Acts(r) ==
    \/ lastRequest'[r] # lastRequest[r]
    \/ lastConnect' # lastConnect /\ lastConnect'.robotId = r
    \/ lastCall' # lastCall /\ lastCall'.robotId = r
    \/ \E t \in RosIds : ros'[t] # ros[t] /\ ros'[t].robotId = r

\* C40: a connect, disconnect, subscribe, unsubscribe, publish, service call
\* or transport event of one robot id leaves the registry entry, topic map,
\* telemetry and status callback of every other robot id unchanged and fires
\* no status event for it.
C40_PerRobotIsolation ==
    [][/\ Cardinality({r \in RobotIds : Touched(r)}) <= 1
       /\ \A r \in RobotIds :
             Acts(r) => \A q \in RobotIds \ {r} : ~Touched(q)]_vars

\* The first robot subscribed to '/scan' and was disconnected; the second is
\* still registered with the '/cmd_vel' handle it published on.
C40_Witness ==
    /\ lastRequest["r1"] = "disconnect"
    /\ ~Has("r1")
    /\ Has("r2")
    /\ connection[connections["r2"]].topics["/cmd_vel"] # NoTopic
    /\ \E t \in RosIds : ros[t].robotId = "r1" /\ connection[t].topics["/scan"] # NoTopic

\* C38: with several relay clients attached to one Session's transport, a
\* frame from the transport is sent once to each attached open client and to
\* no other, a frame from an attached client is written once to the
\* transport, and the disconnect of one client changes nothing for the
\* others: their listeners and what was forwarded stay as they are.
C38_SharedTransport ==
    [][/\ \A t \in RosIds :
             emitted'[t] # emitted[t]
             => \A i \in DOMAIN clients :
                   clients'[i].sent =
                      IF /\ clients[i].ros = t
                         /\ clients[i].listening
                         /\ clients[i].readyState = "open"
                      THEN Append(clients[i].sent, emitted'[t][Len(emitted'[t])])
                      ELSE clients[i].sent
       /\ \A i \in DOMAIN clients :
             clients'[i].received # clients[i].received
             => LET t == clients[i].ros
                    msg == clients'[i].received[Len(clients'[i].received)]
                IN /\ \A u \in RosIds \ {t} : written'[u] = written[u]
                   /\ (t # NoRos /\ ros[t].readyState = "open")
                         => written'[t] = Append(written[t], [client |-> i, data |-> msg])
                   /\ \A j \in DOMAIN clients \ {i} : clients'[j] = clients[j]
       /\ \A i \in DOMAIN clients :
             (/\ clients'[i].readyState # clients[i].readyState
              /\ clients'[i].readyState \in {"failed", "closed"})
             => /\ \A j \in DOMAIN clients \ {i} : clients'[j] = clients[j]
                /\ UNCHANGED <<ros, written, emitted>>]_vars

\* Two clients attached to the same transport: both were sent its first
\* frame, the first client then closed, and the second alone was sent the
\* next frame.
C38_Witness ==
    /\ Len(clients) >= 2
    /\ clients[1].ros # NoRos
    /\ clients[2].ros = clients[1].ros
    /\ clients[1].readyState = "closed"
    /\ clients[2].readyState = "open"
    /\ clients[1].sent = << "json" >>
    /\ clients[2].sent = << "json", "bytes" >>

\* C39: a relay client stays bound to the transport it was paired with when
\* it was accepted: its frames are written to that transport or to none, it
\* is sent frames of that transport only, and once that transport is no
\* longer open its frames are written nowhere, whatever Session the robot id
\* has by then.
C39_BoundToAcceptTransport ==
    [][/\ \A i \in DOMAIN clients : clients'[i].ros = clients[i].ros
       /\ \A i \in DOMAIN clients :
             clients'[i].received # clients[i].received
             => /\ \A u \in RosIds \ {clients[i].ros} : written'[u] = written[u]
                /\ (clients[i].ros = NoRos \/ ros[clients[i].ros].readyState # "open")
                   => written' = written
       /\ \A i \in DOMAIN clients :
             clients'[i].sent # clients[i].sent
             => /\ emitted'[clients[i].ros] # emitted[clients[i].ros]
                /\ \A u \in RosIds \ {clients[i].ros} : emitted'[u] = emitted[u]]_vars

\* The client was paired with a transport that has closed; the robot id has
\* a later Session whose transport is open and has delivered a frame; the
\* client sent a frame after that and it was written nowhere.
C39_Witness ==
    \E t, u \in RosIds :
        /\ clients # << >>
        /\ clients[1].ros = t
        /\ ros[t].readyState = "closed"
        /\ u # t
        /\ connections["r1"] = u
        /\ ros[u].readyState = "open"
        /\ emitted[u] # << >>
        /\ clients[1].received # << >>
        /\ clients[1].sent = << >>
        /\ written[t] = << >> /\ written[u] = << >>

\* The keys of the topic map of the connection of Ros t that hold a handle
\* of topic name.
Handles(t, name) == {k \in TopicKeys : connection[t].topics[k].name = name}

\* C35: every inbound frame for a topic that has a handle in the Session's
\* topic map is delivered to that handle's callback exactly once, whatever
\* its payload; a frame for a topic without handle invokes no callback and
\* changes neither the connection, the listeners nor lastSeen.
C35_InboundDispatch ==
    [][(lastCall'.op = "message" /\ lastCall' # lastCall)
       => LET t == lastCall'.ros
              name == lastCall'.name
          IN IF Handles(t, name) # {}
             THEN \E k \in Handles(t, name) :
                      lastCall'.cbs = << connection[t].topics[k].cb >>
             ELSE /\ lastCall'.cbs = << >>
                  /\ UNCHANGED <<connection, subscriptions, lastSeen>>]_vars

\* C32: whenever no robot:connect or robot:disconnect handling and no status
\* callback for robot r is in flight, r's persisted status is 'online' only
\* if a Connected Session of r is registered.
C32_StatusAgreesAtQuiescence ==
    \A r \in RobotIds :
        Quiescent(r) /\ persisted[r] = "online" => IsRobotConnected(r)

\* C33: every robot:connect request for an existing robot record whose
\* transport reports open or error is eventually answered with
\* robot:connected or robot:error, also when the robot never answers the
\* arm-angle call or disconnects while it is outstanding.
C33_ConnectRequestAnswered ==
    \A k \in 1..MaxRequests :
        (k \in DOMAIN requests) ~> (k \in DOMAIN requests /\ requests[k].replies # << >>)

\* C36: when handleConnectRobot has made its subscriptions for a connected
\* robot, the Session's transport has exactly one listener each for battery
\* voltage, arm-angle updates, laser scan and map, however many robot:connect
\* requests were handled; and every inbound frame on one of those topics is
\* then broadcast exactly once.
C36_OneSubscriptionEach ==
    [][/\ \A k \in DOMAIN requests :
             LET r == requests[k].robotId IN
             (requests[k].pc = "connect" /\ requests'[k].pc = "call" /\ ~NotConnected(r))
             => \A name \in {"/voltage", "/ArmAngleUpdate", "/scan", "/map"} :
                    Len(SelectSeq(subscriptions'[connections[r]],
                                  LAMBDA l : l.name = name)) = 1
       /\ (lastCall'.op = "message" /\ lastCall' # lastCall
            /\ Len(Listeners(lastCall'.ros, lastCall'.name)) > 0)
           => Len(lastCall'.cbs) = 1]_vars

====
